---- MODULE Spec2Model ----
(***************************************************************************)
(* A model of the MCP device server (src/src/devices/*.py).                *)
(*                                                                         *)
(* The tool handlers are coroutines of one asyncio event loop: a handler   *)
(* runs without interruption from one `await` to the next, so every action *)
(* below is the code between two suspension points.  Threads started by    *)
(* the handlers (audio recording, audio playback) and the encoder          *)
(* processes they spawn run beside the event loop and have actions of      *)
(* their own.  Whatever the host platform answers (a device that does not  *)
(* open, an encoder that is missing, a file that cannot be written) is     *)
(* drawn from a small set with \E.                                         *)
(*                                                                         *)
(* The tool groups (audio recording, playback, video recording, screen     *)
(* recording, camera capture, enumeration) keep their state in separate    *)
(* module globals, so a behaviour calls the tools of one group, chosen in  *)
(* Init.  Calls are unbounded in number; MaxTasks bounds how many are in   *)
(* progress at once.  A recorder object nothing refers to any more leaves  *)
(* the model; what it still held is recorded in `leaked`.                  *)
(***************************************************************************)
EXTENDS Integers, Sequences, FiniteSets, TLC

\* ------------------------------------------------------------------ bounds
MaxTasks == 2          \* tool calls in progress at the same time
MaxFrames == 1         \* chunks one background audio thread may capture
MaxCams == 2           \* camera indices 0..MaxCams-1 may have a device behind them
MaxLines == 2          \* lines a print-queue command may write
MaxDevices == 2        \* audio devices the audio system may report
MaxPages == 1          \* pages a print job may count

Tasks == 1..MaxTasks
\* Recorder objects (encoder process; PyAudio instance with its stream and
\* thread) within reach at once: one by each slot, one by each call in progress.
Jobs == 1..(MaxTasks + 4)

\* ----------------------------------------------------- inputs of the calls
Cats == {"audio", "video", "screen"}
Systems == {"windows", "darwin", "linux"}   \* what platform.system() may answer
\* The tool groups.
Scopes == Cats \cup {"playback", "camera", "enumeration", "printer", "screenshot", "stubs"}

Background == -1                       \* duration = -1: record until stopped
Durations == {Background, 0, 2}
FpsValues == {-1, 0, 15, 61}

\* ---- device identifiers: strings as sequences of characters
Digit == <<"0", "1", "2", "3", "4", "5", "6", "7", "8", "9">>
IsDigit(c) == \E d \in DOMAIN Digit : Digit[d] = c
DigitValue(c) == (CHOOSE d \in DOMAIN Digit : Digit[d] = c) - 1

\* f"{i}" for an index i >= 0: its decimal digits.
RECURSIVE Str(_)
Str(i) == IF i < 10 THEN <<Digit[i + 1]>>
          ELSE Str(i \div 10) \o <<Digit[(i % 10) + 1]>>

\* The value of a string of digits.
RECURSIVE Value(_)
Value(s) == IF s = <<>> THEN 0
            ELSE 10 * Value(SubSeq(s, 1, Len(s) - 1)) + DigitValue(s[Len(s)])

\* int(s): the value of the digits of s, which a sign may precede, or
\* ValueError when no digit follows or a character is no digit.
IntOf(s) ==
  LET signed == s # <<>> /\ s[1] \in {"+", "-"}
      body == IF signed THEN Tail(s) ELSE s
  IN
  IF body = <<>> \/ \E n \in DOMAIN body : ~IsDigit(body[n])
    THEN [error |-> "ValueError", value |-> 0]
    ELSE [error |-> "none",
          value |-> IF signed /\ s[1] = "-" THEN 0 - Value(body) ELSE Value(body)]

\* s.startswith(prefix)
StartsWith(s, prefix) ==
  Len(s) >= Len(prefix) /\ SubSeq(s, 1, Len(prefix)) = prefix

\* s.replace(old, ""): every occurrence of old is taken out, left to right.
RECURSIVE Remove(_, _)
Remove(s, old) ==
  IF s = <<>> THEN <<>>
  ELSE IF StartsWith(s, old) THEN Remove(SubSeq(s, Len(old) + 1, Len(s)), old)
  ELSE <<s[1]>> \o Remove(SubSeq(s, 2, Len(s)), old)

CamPrefix == <<"c", "a", "m">>
DisplayPrefix == <<"d", "i", "s", "p", "l", "a", "y">>

\* "device_id": f"cam{i}" of list_cameras (camera.py 38, 66).
CamIdOf(i) == CamPrefix \o Str(i)
\* "device_id": f"display{i}" of list_displays (screen.py 32).
DisplayIdOf(i) == DisplayPrefix \o Str(i)

\* cam_index of get_camera_info, capture_image and start_video_recording
\* (camera.py 102-108, 200-203, 331-334).
CamIndex(device_id) ==
  IF StartsWith(device_id, CamPrefix)
    THEN IntOf(SubSeq(device_id, Len(CamPrefix) + 1, Len(device_id)))
    ELSE [error |-> "invalid_format", value |-> 0]

\* The identifiers list_cameras can produce, one int() rejects, one without
\* the prefix.
CamIds == {CamIdOf(i) : i \in 0..(MaxCams - 1)} \cup {CamPrefix \o <<"X">>, <<"0">>}
\* The identifiers list_displays can produce, one with a negative index, one
\* int() rejects, one without the prefix.
DisplayIds ==
  {DisplayIdOf(0), DisplayIdOf(1), DisplayPrefix \o <<"-", "1">>,
   DisplayPrefix \o <<"X">>, <<"0">>}
MonitorCounts == 0..2
TmpPath == "tmp/rec"
SavePaths == {"none", "d/rec", "rec"}  \* None, with a directory part, without
Devices == {"default", "in", "out"}    \* device_index: None, input only, output only

\* The slot of a category when no job is active (None in the source).
None == [job |-> 0, file_path |-> ""]

VARIABLES
  app,         \* create_app: the settings, the `if` it has reached, the tools registered
  scope,       \* the tool group whose tools the clients call
  pc,          \* position of each task: idle, probe, timer, startup, wait, join, ...
  op,          \* the tool a suspended call is in: start, stop
  cat,         \* its category
  args,        \* the arguments of a call and what it did, kept until its result is taken
  job,         \* the recorder object a suspended call holds in a local
  returned,    \* the result a handler has just handed to its caller
  slot,        \* _active_audio_recording, _active_video_recording, _active_screen_recording
  proc,        \* encoder process: none, running, exited
  sig,         \* signals sent to that process
  thr,         \* background audio thread: none, loop, read, done
  frames,      \* chunks that thread appended
  stop_event,  \* its stop signal
  stream,      \* audio stream: none, open, closed
  pa,          \* PyAudio instance: none, alive, terminated
  play,        \* playback thread: none, playing, done
  blocked,     \* the task whose synchronous wait holds the event loop, or 0
  started,     \* per category: the job whose start last returned "started", 0 after a stop call
  leaked,      \* kinds of resource left running or open with nothing referring to them
  handles,     \* camera capture handles opened and not released
  index,       \* list_cameras: the index i of its loop
  cameras,     \* list_cameras: the indices it has appended
  openable,    \* the indices probed so far where some backend would give a frame
  devices      \* the list another enumeration tool returns

vars == <<app, scope, pc, op, cat, args, job, returned, slot, proc, sig, thr,
          frames, stop_event, stream, pa, play, blocked, started, leaked,
          handles, index, cameras, openable, devices>>

\* What a call keeps of its arguments and of what it has met and done so
\* far.  A handler cannot depend on a parameter it returns without having
\* read, so such a parameter is kept with the valid value it has here.
NoArgs ==
  [duration |-> 2, fps |-> 15, system |-> "",
   save_path |-> "", existed |-> FALSE, removed |-> FALSE, made_dir |-> FALSE,
   device |-> "", sample_rate |-> 0, log |-> <<>>,
   run |-> "", stdout |-> <<>>, temp |-> "none",
   tried |-> 0, passed |-> 0, steps |-> <<>>, after |-> 0,
   device_id |-> <<>>, monitors |-> 0, display |-> 0,   \* once monitors are found
   copies |-> 1, double_sided |-> FALSE, color |-> FALSE, command |-> <<>>]
NoResult == [call |-> 0, op |-> "none", cat |-> "none", result |-> "none"]

\* ------------------------------------------------------- server.py: create_app
\* The device modules in the order create_app asks for them (server.py
\* 14-30); module c is registered under the flag enable_<c> (config.py 9-22).
Modules == <<"camera", "printer", "audio", "storage", "screen", "usb">>
ModuleNames == {Modules[i] : i \in DOMAIN Modules}

\* The tools register_tools of a module adds to the app.
ToolsOf(c) ==
  CASE c = "camera" -> {"list_cameras", "get_camera_info", "capture_image",
                        "start_video_recording", "stop_video_recording"}
    [] c = "printer" -> {"list_printers", "print_file", "print_as_pdf",
                         "get_print_job", "cancel_print_job"}
    [] c = "audio" -> {"list_audio_devices", "record_audio", "play_audio",
                       "stop_record_audio"}
    [] c = "storage" -> {"list_storage_devices", "get_storage_info",
                         "mount_storage", "unmount_storage"}
    [] c = "screen" -> {"list_displays", "capture_screenshot", "record_screen",
                        "stop_record_screen"}
    [] c = "usb" -> {"list_usb_devices", "get_usb_device_info",
                     "eject_usb_device", "get_usb_events"}

\* RegisterIfEnabled, with the flag ignored.
RegisterAlways(a, c) == a.tools \cup ToolsOf(c)

\* `if settings.enable_<c>: <c>.register_tools(app)`
RegisterIfEnabled(a, c) ==
  IF a.settings[c] THEN a.tools \cup ToolsOf(c) ELSE a.tools

\* The app before the first `if` of create_app (server.py 8-12).
NewApp(settings) == [settings |-> settings, step |-> 0, tools |-> {}]

\* create_app run to its return with the given settings.
RECURSIVE Created(_)
Created(a) ==
  IF a.step = Len(Modules) THEN a
  ELSE Created([a EXCEPT !.step = @ + 1,
                         !.tools = RegisterIfEnabled(a, Modules[a.step + 1])])

\* The settings when nothing overrides them: every flag defaults to True
\* (config.py 9-22).
DefaultSettings == [c \in ModuleNames |-> TRUE]

\* Nothing is active and no call is in progress.
Start ==
  /\ pc = [t \in Tasks |-> "idle"]
  /\ op = [t \in Tasks |-> "none"]
  /\ cat = [t \in Tasks |-> "none"]
  /\ args = [t \in Tasks |-> NoArgs]
  /\ job = [t \in Tasks |-> 0]
  /\ returned = NoResult
  /\ slot = [k \in Cats |-> None]
  /\ proc = [j \in Jobs |-> "none"]
  /\ sig = [j \in Jobs |-> <<>>]
  /\ thr = [j \in Jobs |-> "none"]
  /\ frames = [j \in Jobs |-> 0]
  /\ stop_event = [j \in Jobs |-> FALSE]
  /\ stream = [j \in Jobs |-> "none"]
  /\ pa = [j \in Jobs |-> "none"]
  /\ play = [j \in Jobs |-> "none"]
  /\ blocked = 0
  /\ started = [k \in Cats |-> 0]
  /\ leaked = {}
  /\ handles = 0
  /\ index = 0
  /\ cameras = <<>>
  /\ openable = {}
  /\ devices = <<>>

Init ==
  /\ scope \in Scopes
  /\ app = Created(NewApp(DefaultSettings))
  /\ Start

\* ------------------------------------------------ recorder objects, results
\* Object j is unused.
Free(j) ==
  /\ proc[j] = "none" /\ sig[j] = <<>>
  /\ thr[j] = "none" /\ frames[j] = 0 /\ stop_event[j] = FALSE
  /\ stream[j] = "none" /\ pa[j] = "none" /\ play[j] = "none"

\* A slot or the local of a suspended call refers to object j, or its
\* playback thread, which closes it at its end, still runs.
Referenced(j) ==
  \/ \E k \in Cats : slot[k].job = j
  \/ \E t \in Tasks : job[t] = j
  \/ play[j] = "playing"

\* Object j is out of reach: no code can act on it any more.
Garbage(j) == ~Free(j) /\ ~Referenced(j)

\* What object j still holds.
Holds(j) ==
  (IF proc[j] = "running" THEN {"process"} ELSE {})
    \cup (IF pa[j] = "alive" THEN {"pyaudio"} ELSE {})
    \cup (IF stream[j] = "open" THEN {"stream"} ELSE {})
    \cup (IF thr[j] \in {"loop", "read"} THEN {"thread"} ELSE {})

\* The caller has taken the last result and the objects out of reach are gone.
Settled == returned = NoResult /\ \A j \in Jobs : ~Garbage(j)

\* Idle, with the check of record_screen left out.
IdleUncheckedScreen(k) == k = "screen" \/ slot[k] = None

\* No job of category k is active (the slot is None).
Idle(k) == slot[k] = None

HasFresh == \E j \in Jobs : Free(j)
Fresh == CHOOSE j \in Jobs : Free(j) /\ \A i \in Jobs : i < j => ~Free(i)

\* ----------------------------------------------------------------- helpers
\* A call enters its handler: the event loop is free and the lowest idle
\* task takes the call.
Enter(t, k) ==
  /\ scope = k
  /\ pc[t] = "idle"
  /\ blocked = 0
  /\ Settled
  /\ \A d \in Tasks : d < t => pc[d] # "idle"

\* A suspended handler is resumed by the event loop.
Resume(t, at) ==
  /\ pc[t] = at
  /\ blocked \in {0, t}
  /\ Settled

\* The handler of tool o of category k returns r to the caller; its locals
\* are gone.  a is what the call was given and what it did.
ReturnWith(t, o, k, r, a) ==
  /\ pc' = [pc EXCEPT ![t] = "idle"]
  /\ returned' = [call |-> t, op |-> o, cat |-> k, result |-> r]
  /\ op' = [op EXCEPT ![t] = "none"]
  /\ cat' = [cat EXCEPT ![t] = "none"]
  /\ args' = [args EXCEPT ![t] = a]
  /\ job' = [job EXCEPT ![t] = 0]

\* A return of a call whose arguments play no part.
Return(t, o, k, r) == ReturnWith(t, o, k, r, NoArgs)

\* The handler suspends at an await, keeping the locals it needs afterwards.
Suspend(t, o, k, at, a, j) ==
  /\ pc' = [pc EXCEPT ![t] = at]
  /\ op' = [op EXCEPT ![t] = o]
  /\ cat' = [cat EXCEPT ![t] = k]
  /\ args' = [args EXCEPT ![t] = a]
  /\ job' = [job EXCEPT ![t] = j]
  /\ UNCHANGED returned

\* The result reaches the caller and the objects out of reach leave the
\* model; what they still held is leaked.  Nothing else happens before that.
Settle ==
  /\ ~Settled
  /\ returned' = NoResult
  /\ proc' = [j \in Jobs |-> IF Garbage(j) THEN "none" ELSE proc[j]]
  /\ sig' = [j \in Jobs |-> IF Garbage(j) THEN <<>> ELSE sig[j]]
  /\ thr' = [j \in Jobs |-> IF Garbage(j) THEN "none" ELSE thr[j]]
  /\ frames' = [j \in Jobs |-> IF Garbage(j) THEN 0 ELSE frames[j]]
  /\ stop_event' = [j \in Jobs |-> IF Garbage(j) THEN FALSE ELSE stop_event[j]]
  /\ stream' = [j \in Jobs |-> IF Garbage(j) THEN "none" ELSE stream[j]]
  /\ pa' = [j \in Jobs |-> IF Garbage(j) THEN "none" ELSE pa[j]]
  /\ play' = [j \in Jobs |-> IF Garbage(j) THEN "none" ELSE play[j]]
  /\ started' = [k \in Cats |-> IF started[k] # 0 /\ Garbage(started[k]) THEN 0 ELSE started[k]]
  /\ leaked' = leaked \cup UNION {Holds(j) : j \in {i \in Jobs : Garbage(i)}}
  /\ index' = 0
  /\ cameras' = <<>>
  /\ openable' = {}
  /\ devices' = <<>>
  /\ args' = [t \in Tasks |-> IF pc[t] = "idle" THEN NoArgs ELSE args[t]]
  /\ UNCHANGED <<scope, app, pc, op, cat, job, slot, blocked, handles>>

NewJob(j, path) == [job |-> j, file_path |-> path]

ProcVars == <<proc, sig>>
AudioVars == <<thr, frames, stop_event, stream, pa, play>>
ListVars == <<index, cameras, openable, devices>>
CameraVars == <<handles, ListVars>>

\* ------------------------------------------------- camera.py: capture handles
\* What one cv2.VideoCapture(index, backend) attempt meets: the constructor
\* raises; the capture is not opened; it is opened and read() gives no frame;
\* it is opened and read() raises; it is opened and read() gives a frame.
Outcomes == {"ctor_raise", "not_opened", "read_fail", "read_raise", "ok"}

\* The backends get_camera_info, capture_image and start_video_recording try,
\* in order (camera.py 110-119, 205-214, 354-362).
Backends(sys) ==
  CASE sys = "windows" -> <<"DSHOW", "MSMF", "ANY">>
    [] sys = "linux" -> <<"V4L2", "GSTREAMER", "ANY">>
    [] sys = "darwin" -> <<"AVFOUNDATION", "ANY">>

\* The local `cap` of a handler and the handles the handler has open: cap is
\* none, unopened, open or released; found tells that a frame was read.
\* tried counts the cv2.VideoCapture calls of a loop, hits those that gave a
\* frame, after those made once a frame had been read.
NoCapture == [cap |-> "none", open |-> 0, found |-> FALSE,
              tried |-> 0, hits |-> 0, after |-> 0]

\* One more cv2.VideoCapture call is made.
Attempt(st) ==
  [st EXCEPT !.tried = @ + 1, !.after = IF st.found THEN @ + 1 ELSE @]

\* The call gave a frame.
Hit(st) == [st EXCEPT !.found = TRUE, !.hits = @ + 1]

\* cap = cv2.VideoCapture(...) with outcome o other than ctor_raise: the new
\* object replaces the one cap referred to.
Construct(st, o) ==
  [st EXCEPT !.cap = IF o = "not_opened" THEN "unopened" ELSE "open",
             !.open = IF o = "not_opened" THEN @ ELSE @ + 1]

\* cap.release()
Release(st) ==
  [st EXCEPT !.cap = "released",
             !.open = IF st.cap = "open" THEN @ - 1 ELSE @]

\* ReleaseIfSet, with the release left out.
ReleaseIfSetSkipped(st) == st

\* `if cap: cap.release()` of the except branches, `if cap is not None:
\* cap.release()` of the finally blocks.
ReleaseIfSet(st) == IF st.cap = "none" THEN st ELSE Release(st)

\* cap = None
Clear(st) == [st EXCEPT !.cap = "none"]

\* The probe loop over the backends from position n on (camera.py 121-134,
\* 216-229, 364-380).  The probe of start_video_recording releases the capture
\* as soon as it has the resolution; the other two keep it open.
RECURSIVE Probe(_, _, _, _)
Probe(tool, outs, n, st) ==
  IF n > Len(outs) THEN st
  ELSE LET at == Attempt(st) IN
       CASE outs[n] = "ctor_raise" -> Probe(tool, outs, n + 1, Clear(ReleaseIfSet(at)))
         [] outs[n] = "not_opened" -> Probe(tool, outs, n + 1, Construct(at, outs[n]))
         [] outs[n] = "read_fail" ->
              Probe(tool, outs, n + 1, Clear(Release(Construct(at, outs[n]))))
         [] outs[n] = "read_raise" ->
              Probe(tool, outs, n + 1, Clear(ReleaseIfSet(Construct(at, outs[n]))))
         [] outs[n] = "ok" ->
              IF tool = "video"
                THEN Hit(Release(Construct(at, outs[n])))
                ELSE Hit(Construct(at, outs[n]))

\* ------------------------------------------------- camera.py: video recording
\* save_path as start_video_recording resolves it (camera.py 388-394).
VideoPath(save_path) == IF save_path = "none" THEN TmpPath ELSE save_path

\* os.makedirs(os.path.dirname(save_path), exist_ok=True) raises for a path
\* without a directory part (camera.py 396).
MakedirsRaises(path) == path = "rec"

\* The checks of start_video_recording that follow the idle check, in the
\* order of the source (camera.py 331-350): "ok" or the error returned.
VideoValidate(sys, device_id, duration, fps) ==
  IF CamIndex(device_id).error = "invalid_format" THEN "invalid_device_id"
  ELSE IF CamIndex(device_id).error = "ValueError" THEN "exception"
  ELSE IF duration # Background /\ duration <= 0 THEN "invalid_duration"
  ELSE IF fps <= 0 THEN "invalid_fps"
  ELSE IF sys = "darwin" /\ fps > 30 THEN "invalid_fps"
  ELSE "ok"

\* Of the parameters a of a start, those the handler has read when its
\* checks end with v (camera.py 336-350, screen.py 217-228): the duration is
\* checked first, then fps, then the platform.
ReadSoFar(v, a) ==
  CASE v = "invalid_duration" -> [NoArgs EXCEPT !.duration = a.duration]
    [] v = "invalid_fps" /\ a.fps <= 0 ->
         [NoArgs EXCEPT !.duration = a.duration, !.fps = a.fps]
    [] OTHER -> a

\* The except branch of start_video_recording (camera.py 555-561): a file
\* found at save_path is removed.  The other start handlers remove nothing
\* (screen.py 429-440, audio.py 234-235).
Except(k, a, exists) ==
  IF k = "video" /\ a.save_path \notin {"", "none"} /\ exists   \* `if save_path and ...`
    THEN [a EXCEPT !.existed = TRUE, !.removed = TRUE]
    ELSE a

\* start_video_recording from its entry through its parameter checks.  The
\* handler goes on without an await, so it keeps the event loop.
VideoStartBegin(t) ==
  /\ Enter(t, "video")
  /\ IF ~Idle("video") THEN
       Return(t, "start", "video", "already_in_progress") /\ UNCHANGED blocked
     ELSE
       \E call \in {[v |-> VideoValidate(sys, device_id, duration, fps),
                     a |-> [NoArgs EXCEPT !.duration = duration, !.fps = fps,
                                          !.system = sys]] :
                      sys \in Systems, device_id \in CamIds,
                      fps \in FpsValues, duration \in Durations} :
         IF call.v = "invalid_device_id" THEN
           Return(t, "start", "video", call.v) /\ UNCHANGED blocked
         ELSE IF call.v = "exception" THEN           \* int() raises ValueError
           /\ \E save_path \in SavePaths, exists \in BOOLEAN :
                ReturnWith(t, "start", "video", call.v,
                           Except("video", [NoArgs EXCEPT !.save_path = save_path], exists))
           /\ UNCHANGED blocked
         ELSE IF call.v # "ok" THEN
           ReturnWith(t, "start", "video", call.v, ReadSoFar(call.v, call.a))
           /\ UNCHANGED blocked
         ELSE
           /\ Suspend(t, "start", "video", "probe",
                      [NoArgs EXCEPT !.duration = call.a.duration,
                                     !.system = call.a.system], 0)
           /\ blocked' = t
  /\ UNCHANGED <<scope, app, slot, ProcVars, AudioVars, started, leaked, CameraVars>>

\* start_video_recording from the resolution probe to `await asyncio.sleep(timer)`
\* (camera.py 352-398).
VideoStartProbe(t) ==
  /\ Resume(t, "probe")
  /\ \E st \in {Probe("video", outs, 1, NoCapture) :
                  outs \in [1..Len(Backends(args[t].system)) -> Outcomes]} :
       /\ handles' = handles + st.open
       /\ IF ~st.found THEN
            Return(t, "start", "video", "no_resolution")
          ELSE
            \E save_path \in SavePaths :
              LET a == [NoArgs EXCEPT !.duration = args[t].duration,
                                      !.save_path = VideoPath(save_path)]
              IN
              IF MakedirsRaises(VideoPath(save_path))
                THEN \E exists \in BOOLEAN :
                       ReturnWith(t, "start", "video", "exception", Except("video", a, exists))
                ELSE Suspend(t, "start", "video", "timer",
                             [a EXCEPT !.made_dir = save_path # "none"], 0)
  /\ blocked' = 0
  /\ UNCHANGED <<scope, app, slot, ProcVars, AudioVars, started, leaked, ListVars>>

\* The slot assignment of a background start (camera.py 499-504, screen.py
\* 369-374, audio.py 184-196).
Occupy(k, j, path) == [slot EXCEPT ![k] = NewJob(j, path)]

\* A background start spawns the encoder, fills the slot and suspends at
\* `await asyncio.sleep(0.5)` (camera.py 495-506, screen.py 365-376).
SpawnBackground(t, k, a, path) ==
  /\ proc' = [proc EXCEPT ![Fresh] = "running"]
  /\ slot' = Occupy(k, Fresh, path)
  /\ Suspend(t, "start", k, "startup", [NoArgs EXCEPT !.fps = a.fps], Fresh)

\* A fixed-duration start runs the encoder to its end in a blocking
\* subprocess.run (camera.py 533-554, screen.py 399-428).
RunFixed(t, k, a) ==
  /\ proc' = [proc EXCEPT ![Fresh] = "exited"]
  /\ \E r \in {"recorded", "record_failed", "no_output_file"} :
       ReturnWith(t, "start", k, r, a)
  /\ UNCHANGED slot

\* The encoder check and the spawn shared by both starts (camera.py 400-554,
\* screen.py 274-428).
Encode(t, k, a, path) ==
  \/ ReturnWith(t, "start", k, "encoder_missing", a) /\ UNCHANGED <<slot, proc>>
  \/ /\ \E exists \in BOOLEAN :                      \* the spawn raises
          ReturnWith(t, "start", k, "exception", Except(k, a, exists))
     /\ UNCHANGED <<slot, proc>>
  \/ /\ HasFresh
     /\ IF a.duration = Background THEN SpawnBackground(t, k, a, path)
                                   ELSE RunFixed(t, k, a)

\* start_video_recording from the end of the timer to `await asyncio.sleep(0.5)`
\* (background) or to its return (fixed duration).
VideoStartAfterTimer(t) ==
  /\ Resume(t, "timer")
  /\ Encode(t, "video", args[t], args[t].save_path)
  /\ UNCHANGED <<scope, app, sig, AudioVars, blocked, started, leaked, CameraVars>>

\* What the start-up check does to the slot when the encoder has exited
\* (camera.py 509, screen.py 378).
ClearAfterFailedStart(k) == [slot EXCEPT ![k] = None]

\* The check after the 0.5 s start-up wait (camera.py 508-531, screen.py 377-397).
StartupCheck(t) ==
  /\ Resume(t, "startup")
  /\ IF proc[job[t]] = "exited"
       THEN /\ slot' = ClearAfterFailedStart(cat[t])
            /\ Return(t, "start", cat[t], "start_failed")
            /\ UNCHANGED started
       ELSE /\ Return(t, "start", cat[t], "started")
            /\ started' = [started EXCEPT ![cat[t]] = job[t]]
            /\ UNCHANGED slot
  /\ UNCHANGED <<scope, app, ProcVars, AudioVars, blocked, leaked, CameraVars>>

\* The encoder process ends by itself (device busy, bad arguments, crash).
ProcExit(j) ==
  /\ Settled
  /\ proc[j] = "running"
  /\ proc' = [proc EXCEPT ![j] = "exited"]
  /\ UNCHANGED <<scope, app, pc, op, cat, args, job, returned, slot, sig,
                 AudioVars, blocked, started, leaked, CameraVars>>

\* StopIdle, reporting a stopped recording.
StopIdleReportsStopped(t, k) ==
  /\ Return(t, "stop", k, "stopped")
  /\ UNCHANGED slot

\* A stop call that finds no active job returns at once (camera.py 571-575,
\* screen.py 450-451, audio.py 368-369).
StopIdle(t, k) ==
  /\ Return(t, "stop", k, "no_active")
  /\ UNCHANGED slot

\* ClearOnStop, clearing the slot of every category.
ClearEveryOnStop(k) == [c \in Cats |-> None]

\* The slot after a stop call of video or screen (camera.py 587 and 603,
\* screen.py 467 and 484).
ClearOnStop(k) == [slot EXCEPT ![k] = None]

\* Signals, with the kill sent in place of the terminate.
SignalsKillFirst(sent, running) ==
  IF sent = <<>> THEN <<"kill">> ELSE sent

\* The signals the process has been sent once `process.wait(timeout=10)` is
\* over: the kill follows the terminate only when the wait timed out, that
\* is when the process still runs (camera.py 580-585, screen.py 459-465).
Signals(sent, running) ==
  IF sent = <<>> THEN <<"terminate">>
  ELSE IF running THEN Append(sent, "kill") ELSE sent

\* WaitOutcomes, for a wait without a timeout.
WaitOutcomesUnbounded(j) ==
  IF proc[j] = "running" THEN {} ELSE {"exited"}

\* How `process.wait(timeout=10)` can end for process j: it returns when the
\* process has exited and raises TimeoutExpired after 10 s when it has not
\* (camera.py 581-583, screen.py 461-463).
WaitOutcomes(j) ==
  IF proc[j] = "running" THEN {"timeout"} ELSE {"exited"}

\* stop_video_recording and stop_record_screen up to `process.wait(timeout=10)`,
\* which holds the event loop while the process runs on.
StopEncoder(t, k) ==
  /\ Enter(t, k)
  /\ IF Idle(k) THEN
       StopIdle(t, k) /\ UNCHANGED <<sig, blocked>>
     ELSE
       LET j == slot[k].job IN
       \/ /\ slot' = ClearOnStop(k)                    \* terminate() raises
          /\ Return(t, "stop", k, "stop_error")
          /\ UNCHANGED <<sig, blocked>>
       \/ /\ sig' = [sig EXCEPT ![j] = Signals(<<>>, proc[j] = "running")]
          /\ blocked' = t
          /\ Suspend(t, "stop", k, "wait", NoArgs, j)
          /\ UNCHANGED slot
  /\ started' = [started EXCEPT ![k] = 0]
  /\ UNCHANGED <<scope, app, proc, AudioVars, leaked, CameraVars>>

\* stop_video_recording and stop_record_screen from the end of the wait to
\* their return: after a timeout the process is killed and `process.wait()`
\* returns once it has exited.
StopEncoderWait(t) ==
  /\ Resume(t, "wait")
  /\ LET j == job[t] IN
     \E wait \in WaitOutcomes(j) :
       /\ sig' = [sig EXCEPT ![j] = Signals(sig[j], wait = "timeout")]
       /\ proc' = [proc EXCEPT ![j] = "exited"]
       /\ slot' = ClearOnStop(cat[t])
       \* the file test after the wait may raise as well
       /\ \E r \in {"stopped", "no_valid_file", "stop_error"} : Return(t, "stop", cat[t], r)
  /\ blocked' = 0
  /\ UNCHANGED <<scope, app, AudioVars, started, leaked, CameraVars>>

\* ------------------------------------------------- screen.py: screen recording
\* save_path as record_screen resolves it (screen.py 252-268).
ScreenPath(save_path) ==
  CASE save_path = "none" -> TmpPath
    [] save_path = "d/rec" -> "d/rec.mp4"
    [] save_path = "rec" -> "rec.mp4"

\* display_index of capture_screenshot and record_screen (screen.py 71-74,
\* 230-232): 0 unless the identifier starts with "display".
DisplayIndex(device_id) ==
  IF device_id # <<>> /\ StartsWith(device_id, DisplayPrefix)
    THEN IntOf(Remove(device_id, DisplayPrefix))
    ELSE [error |-> "none", value |-> 0]

\* The parameter checks of record_screen that follow the idle check
\* (screen.py 217-228); `if fps and ...` lets fps = 0 through.
ScreenValidate(duration, fps) ==
  IF duration # Background /\ duration <= 0 THEN "invalid_duration"
  ELSE IF fps # 0 /\ fps <= 0 THEN "invalid_fps"
  ELSE IF fps # 0 /\ fps > 60 THEN "invalid_fps"
  ELSE "ok"

\* An error return of a start before anything was spawned.
FailWith(t, k, r, a) == ReturnWith(t, "start", k, r, a) /\ UNCHANGED <<slot, proc>>

Fail(t, k, r) == FailWith(t, k, r, NoArgs)

\* record_screen has no await before the slot assignment: one step up to
\* `await asyncio.sleep(0.5)` (background) or to its return (fixed duration).
ScreenStart(t) ==
  /\ Enter(t, "screen")
  /\ IF ~Idle("screen") THEN
       Fail(t, "screen", "already_in_progress")
     ELSE
     \E device_id \in DisplayIds, fps \in FpsValues, duration \in Durations :
       LET a == [NoArgs EXCEPT !.duration = duration, !.fps = fps] IN
       IF ScreenValidate(duration, fps) # "ok" THEN
         FailWith(t, "screen", ScreenValidate(duration, fps),
                  ReadSoFar(ScreenValidate(duration, fps), a))
       ELSE IF DisplayIndex(device_id).error = "ValueError" THEN
         FailWith(t, "screen", "exception", a)
       ELSE
         \/ FailWith(t, "screen", "exception", a)     \* get_monitors() raises
         \/ \E monitors \in MonitorCounts :
              LET c == [a EXCEPT !.device_id = device_id, !.monitors = monitors,
                                 !.display = DisplayIndex(device_id).value]
              IN
              IF monitors = 0 THEN
                FailWith(t, "screen", "no_displays", a)
              ELSE IF \/ DisplayIndex(device_id).value >= monitors
                      \/ DisplayIndex(device_id).value < 0 THEN
                FailWith(t, "screen", "display_not_found", c)
              ELSE
                \E save_path \in SavePaths :
                  \/ /\ save_path = "d/rec"           \* os.makedirs raises PermissionError
                     /\ FailWith(t, "screen", "permission_denied", c)
                  \/ Encode(t, "screen",
                            [c EXCEPT !.made_dir = save_path = "d/rec"],
                            ScreenPath(save_path))
  /\ UNCHANGED <<scope, app, sig, AudioVars, blocked, started, leaked, CameraVars>>

\* --------------------------------------------------- audio.py: audio recording
AudioFiles == {"none", "d/rec"}        \* output_file: None or a given path
AudioPath(output_file) == IF output_file = "none" THEN TmpPath ELSE output_file

\* PyAudio.terminate() closes the streams of the instance that are still open.
Terminate(j) ==
  /\ pa' = [pa EXCEPT ![j] = "terminated"]
  /\ stream' = [stream EXCEPT ![j] = IF @ = "open" THEN "closed" ELSE @]

\* The `finally` of record_audio (audio.py 236-238), reached with the PyAudio
\* instance j created: it is terminated unless the call is a background start.
RecordFinally(j, duration) ==
  IF duration # Background
    THEN Terminate(j)
    ELSE /\ pa' = [pa EXCEPT ![j] = "alive"]
         /\ UNCHANGED stream

\* An error return of record_audio.
AudioFailWith(t, r, a) ==
  /\ ReturnWith(t, "start", "audio", r, a)
  /\ UNCHANGED <<slot, started, thr>>

AudioFail(t, r) == AudioFailWith(t, r, NoArgs)

\* device_info["maxInputChannels"] and device_info["maxOutputChannels"] of
\* the device a call names.
InputChannels(device) == IF device = "out" THEN 0 ELSE 1
OutputChannels(device) == IF device = "in" THEN 0 ELSE 1

\* RejectedAsInput, with the direction check left out.
RejectedAsInputNever(device) == FALSE

\* The direction check of record_audio (audio.py 136-142): an explicit
\* device without input channels is rejected.
RejectedAsInput(device) == device # "default" /\ InputChannels(device) = 0

\* The direction check of play_audio (audio.py 276-282).
RejectedAsOutput(device) == device # "default" /\ OutputChannels(device) = 0

Chunk == 1024                          \* chunk = 1024 (audio.py 114)
SampleRates == {8000, 11025}

\* The fraction n / d, its product with m, and int() of a fraction that is
\* not negative.
Quotient(n, d) == [num |-> n, den |-> d]
Times(q, m) == [num |-> q.num * m, den |-> q.den]
IntPart(q) == q.num \div q.den

\* TotalFrames, dividing in whole numbers first.
TotalFramesFloorFirst(sample_rate, duration) == (sample_rate \div Chunk) * duration

\* total_frames = int(sample_rate / chunk * duration) (audio.py 211).  The
\* durations of the model are whole seconds, for which the division and the
\* product of the source are exact.
TotalFrames(sample_rate, duration) == IntPart(Times(Quotient(sample_rate, Chunk), duration))

\* What a fixed-duration record_audio does from its read loop on (audio.py
\* 210-224) when n of its total reads return a chunk: the reads, then, with
\* every read done, the close of the stream, then the write of the chunks
\* in the order of frames, unless the write raises.  Chunk i is the one the
\* i-th read returned.
FixedRecording(total, n, wrote) ==
  [i \in 1..n |-> [e |-> "read", chunks |-> <<i>>]]
    \o (IF n = total THEN <<[e |-> "close", chunks |-> <<>>]>> ELSE <<>>)
    \o (IF n = total /\ wrote
          THEN <<[e |-> "write", chunks |-> [i \in 1..n |-> i]]>> ELSE <<>>)

\* record_audio: no await at all, so the whole handler is one step.  A fixed
\* duration reads its chunks and writes the file before it returns.
AudioStart(t) ==
  /\ Enter(t, "audio")
  /\ \E duration \in Durations :
       LET a0 == [NoArgs EXCEPT !.duration = duration] IN
       IF ~Idle("audio") THEN
         AudioFail(t, "already_in_progress") /\ UNCHANGED <<stream, pa>>
       ELSE IF duration # Background /\ duration <= 0 THEN
         AudioFailWith(t, "invalid_duration", a0) /\ UNCHANGED <<stream, pa>>
       ELSE
         \/ AudioFailWith(t, "audio_init_failed", a0) /\ UNCHANGED <<stream, pa>>
         \/ /\ HasFresh
            /\ \E device \in Devices :
              LET a == [a0 EXCEPT !.device = device] IN
              \* get_device_info_by_index / get_default_input_device_info raises
              \/ AudioFailWith(t, "exception", a0) /\ RecordFinally(Fresh, duration)
              \/ IF RejectedAsInput(device) THEN
                   AudioFailWith(t, "not_input_device", a) /\ RecordFinally(Fresh, duration)
                 ELSE
                   \/ AudioFailWith(t, "stream_open_failed", a) /\ RecordFinally(Fresh, duration)
                   \/ IF duration = Background THEN
                        \E output_file \in AudioFiles :
                          /\ thr' = [thr EXCEPT ![Fresh] = "loop"]
                          /\ stream' = [stream EXCEPT ![Fresh] = "open"]
                          /\ pa' = [pa EXCEPT ![Fresh] = "alive"]
                          /\ slot' = Occupy("audio", Fresh, AudioPath(output_file))
                          /\ ReturnWith(t, "start", "audio", "started", a)
                          /\ started' = [started EXCEPT !["audio"] = Fresh]
                      ELSE
                        \* all chunks read and the file written, or a read or
                        \* the write raised: the finally terminates PyAudio
                        \E sample_rate \in SampleRates :
                          LET total == TotalFrames(sample_rate, duration) IN
                          \E n \in 0..total, wrote \in BOOLEAN :
                            /\ n < total => ~wrote
                            /\ AudioFailWith(t, IF wrote THEN "recorded" ELSE "exception",
                                             [a EXCEPT !.sample_rate = sample_rate,
                                                       !.log = FixedRecording(total, n, wrote)])
                            /\ pa' = [pa EXCEPT ![Fresh] = "terminated"]
                            /\ stream' = [stream EXCEPT ![Fresh] = "closed"]
  /\ UNCHANGED <<scope, app, ProcVars, frames, stop_event, play, blocked, leaked, CameraVars>>

\* NextIteration, with the stop signal ignored.
NextIterationUnchecked(j) == "read"

\* `while not stop_event.is_set()`: where the thread goes from the head of
\* its loop (audio.py 174).
NextIteration(j) == IF stop_event[j] THEN "done" ELSE "read"

\* background_record: the test of the stop signal at the head of the loop.
ThreadLoop(j) ==
  /\ Settled
  /\ thr[j] = "loop"
  /\ thr' = [thr EXCEPT ![j] = NextIteration(j)]
  /\ UNCHANGED <<scope, app, pc, op, cat, args, job, returned, slot, ProcVars,
                 frames, stop_event, stream, pa, play, blocked, started, leaked, CameraVars>>

\* background_record: stream.read returns a chunk, which is appended, or
\* raises, which ends the thread.
ThreadRead(j) ==
  /\ Settled
  /\ thr[j] = "read"
  /\ \/ /\ frames[j] < MaxFrames
        /\ frames' = [frames EXCEPT ![j] = @ + 1]
        /\ thr' = [thr EXCEPT ![j] = "loop"]
     \/ /\ thr' = [thr EXCEPT ![j] = "done"]
        /\ UNCHANGED frames
  /\ UNCHANGED <<scope, app, pc, op, cat, args, job, returned, slot, ProcVars,
                 stop_event, stream, pa, play, blocked, started, leaked, CameraVars>>

\* stop_record_audio up to thread.join(timeout=5.0), which holds the event
\* loop while the thread runs on.
StopAudioBegin(t) ==
  /\ Enter(t, "audio")
  /\ started' = [started EXCEPT !["audio"] = 0]
  /\ IF Idle("audio") THEN
       StopIdle(t, "audio") /\ UNCHANGED <<stop_event, blocked>>
     ELSE
       /\ UNCHANGED slot
       /\ stop_event' = [stop_event EXCEPT ![slot["audio"].job] = TRUE]
       /\ blocked' = t
       /\ Suspend(t, "stop", "audio", "join", NoArgs, slot["audio"].job)
  /\ UNCHANGED <<scope, app, ProcVars, thr, frames, stream, pa, play, leaked, CameraVars>>

\* The slot after stop_record_audio, by the outcome of its steps: cleared
\* after the file was written (audio.py 392) and when closing the stream
\* raised (audio.py 416), left as it was when writing the file raised
\* (audio.py 410-414).
AudioSlotAfterStop(outcome) ==
  IF outcome = "save_failed" THEN slot ELSE [slot EXCEPT !["audio"] = None]

\* stop_record_audio from the return of join (the thread ended, or 5 s went
\* by) to its return.
StopAudioFinish(t) ==
  /\ Resume(t, "join")
  /\ LET j == job[t] IN
     \E outcome \in {"stopped", "no_valid_file", "stop_error", "save_failed"} :
       /\ slot' = AudioSlotAfterStop(outcome)
       /\ Return(t, "stop", "audio", outcome)
       /\ CASE outcome = "stop_error" ->              \* closing the stream raises
                 UNCHANGED <<stream, pa>>
            [] outcome = "save_failed" ->             \* writing the file raises
                 /\ stream' = [stream EXCEPT ![j] = "closed"]
                 /\ UNCHANGED pa
            [] OTHER ->
                 /\ stream' = [stream EXCEPT ![j] = "closed"]
                 /\ pa' = [pa EXCEPT ![j] = "terminated"]
  /\ blocked' = 0
  /\ UNCHANGED <<scope, app, ProcVars, thr, frames, stop_event, play, started, leaked, CameraVars>>

\* An error return of play_audio.
PlayFailWith(t, r, a) == ReturnWith(t, "play", "audio", r, a) /\ UNCHANGED play

PlayFail(t, r) == PlayFailWith(t, r, NoArgs)

\* play_audio: one step up to its return; the playback runs in a thread.
PlayAudio(t) ==
  /\ Enter(t, "playback")
  /\ \/ \E r \in {"file_not_found", "invalid_wav", "audio_init_failed"} :
          PlayFail(t, r) /\ UNCHANGED <<stream, pa>>
     \/ /\ HasFresh
        /\ \E device \in Devices :
          LET a == [NoArgs EXCEPT !.device = device] IN
          \/ PlayFail(t, "playback_failed") /\ Terminate(Fresh)     \* audio.py 334-336
          \/ IF RejectedAsOutput(device) THEN
               /\ PlayFailWith(t, "not_output_device", a)
               /\ pa' = [pa EXCEPT ![Fresh] = "alive"]
               /\ UNCHANGED stream
             ELSE
               \/ /\ PlayFailWith(t, "stream_open_failed", a)
                  /\ pa' = [pa EXCEPT ![Fresh] = "alive"]
                  /\ UNCHANGED stream
               \/ /\ ReturnWith(t, "play", "audio", "playing", a)
                  /\ pa' = [pa EXCEPT ![Fresh] = "alive"]
                  /\ stream' = [stream EXCEPT ![Fresh] = "open"]
                  /\ play' = [play EXCEPT ![Fresh] = "playing"]
  /\ UNCHANGED <<scope, app, slot, ProcVars, thr, frames, stop_event, blocked, started, leaked, CameraVars>>

\* play_in_background ends: its `finally` closes the stream and terminates
\* the PyAudio instance (audio.py 313-316).
PlayThreadEnd(j) ==
  /\ Settled
  /\ play[j] = "playing"
  /\ play' = [play EXCEPT ![j] = "done"]
  /\ stream' = [stream EXCEPT ![j] = "closed"]
  /\ pa' = [pa EXCEPT ![j] = "terminated"]
  /\ UNCHANGED <<scope, app, pc, op, cat, args, job, returned, slot, ProcVars,
                 thr, frames, stop_event, blocked, started, leaked, CameraVars>>

\* ------------------------------------------------- camera.py: capture tools
JobVars == <<slot, ProcVars, AudioVars, started, leaked>>

\* `finally: if cap is not None: cap.release()` (camera.py 166-168, 276-278).
Finally(st) == ReleaseIfSet(st)

\* get_camera_info: no await, one step.
GetCameraInfo(t) ==
  /\ Enter(t, "camera")
  /\ \E device_id \in CamIds :
       IF CamIndex(device_id).error = "invalid_format" THEN
         Return(t, "get_camera_info", "camera", "invalid_device_id") /\ UNCHANGED handles
       ELSE IF CamIndex(device_id).error = "ValueError" THEN
         Return(t, "get_camera_info", "camera", "exception") /\ UNCHANGED handles
       ELSE
         \E st \in UNION {
              {Probe("info", outs, 1, NoCapture) :
                 outs \in [1..Len(Backends(sys)) -> Outcomes]} :
              sys \in Systems} :
           /\ handles' = handles + Finally(st).open
           /\ IF ~st.found
                THEN Return(t, "get_camera_info", "camera", "unavailable")
                ELSE \E r \in {"available", "exception"} :  \* cap.get may raise
                       Return(t, "get_camera_info", "camera", r)
  /\ UNCHANGED <<scope, app, JobVars, blocked, ListVars>>

\* The backends that gave a frame among those tried before the last of the
\* n tried (camera.py 216-229).
Passed(outs, n) == Cardinality({m \in 1..(n - 1) : outs[m] = "ok"})

WarmUp == 5                            \* `for _ in range(5): cap.read()`

\* The steps of capture_image from the open of the capture it keeps to the
\* timer (camera.py 216-239).
BeginSteps == <<"open">> \o [i \in 1..WarmUp |-> "warmup"]

\* FinishSteps, with the capture released before the frame is read.
FinishStepsReleaseFirst(r) == <<"timer", "release", "read", "write">>

\* The steps of capture_image from the timer on, by its result (camera.py
\* 241-278): the read of the frame, the write of the image, and the release
\* of the finally.
FinishSteps(r) ==
  CASE r = "exception" -> <<"timer", "release">>           \* the read raises
    [] r = "capture_failed" -> <<"timer", "read", "release">>
    [] r = "save_failed" -> <<"timer", "read", "release">>    \* imwrite gives False
    [] r = "captured" -> <<"timer", "read", "write", "release">>

\* capture_image up to `await asyncio.sleep(timer)`, where it holds the
\* capture open, or to an earlier return.
CaptureImageBegin(t) ==
  /\ Enter(t, "camera")
  /\ \E device_id \in CamIds :
       IF CamIndex(device_id).error = "invalid_format" THEN
         Return(t, "capture_image", "camera", "invalid_device_id") /\ UNCHANGED handles
       ELSE IF CamIndex(device_id).error = "ValueError" THEN
         Return(t, "capture_image", "camera", "exception") /\ UNCHANGED handles
       ELSE
         \E probe \in UNION {
              {[st |-> Probe("capture", outs, 1, NoCapture),
                passed |-> Passed(outs, Probe("capture", outs, 1, NoCapture).tried)] :
                 outs \in [1..Len(Backends(sys)) -> Outcomes]} :
              sys \in Systems} :
           LET st == probe.st IN
           IF ~st.found THEN
             /\ Return(t, "capture_image", "camera", "not_accessible")
             /\ handles' = handles + Finally(st).open
           ELSE
             \/ /\ Return(t, "capture_image", "camera", "exception")  \* a warm-up read raises
                /\ handles' = handles + Finally(st).open
             \/ /\ Suspend(t, "capture_image", "camera", "shutter",
                           [NoArgs EXCEPT !.tried = st.tried,
                                          !.passed = probe.passed,
                                          !.steps = BeginSteps], 0)
                /\ handles' = handles + st.open
  /\ UNCHANGED <<scope, app, JobVars, blocked, ListVars>>

\* The dict a camera handler returns for result r: the value under "status",
\* "none" when the dict has no such key, and whether it has an "error" key.
\* capture_image answers a device_id without the prefix with {"error": ...}
\* (camera.py 203), start_video_recording a missing encoder with
\* {"success": False, "error": ...} (camera.py 417-420); every other return
\* of capture_image, start_video_recording and stop_video_recording has
\* "status".
CameraAnswer(o, r) ==
  CASE o = "capture_image" /\ r = "invalid_device_id" -> [status |-> "none", error |-> TRUE]
    [] o = "start" /\ r = "encoder_missing" -> [status |-> "none", error |-> TRUE]
    [] r \in {"captured", "started", "recorded", "stopped"} ->
         [status |-> "success", error |-> FALSE]
    [] OTHER -> [status |-> "error", error |-> TRUE]

\* The capture a suspended capture_image holds.
Held == [NoCapture EXCEPT !.cap = "open", !.open = 1, !.found = TRUE]

\* capture_image from the end of the timer to its return: the read, the
\* encoding and the write may each fail; the finally releases the capture.
CaptureImageFinish(t) ==
  /\ Resume(t, "shutter")
  /\ \E r \in {"capture_failed", "save_failed", "exception", "captured"} :
       ReturnWith(t, "capture_image", "camera", r,
                  [args[t] EXCEPT !.steps = @ \o FinishSteps(r)])
  /\ handles' = handles - Held.open + Finally(Held).open
  /\ UNCHANGED <<scope, app, JobVars, blocked, ListVars>>

\* ------------------------------------------------- camera.py: list_cameras
NumIndices == 10       \* `for i in range(10)`

\* What the attempts on index i may meet: only the first MaxCams indices
\* have a device behind them.
IndexOutcomes(i) == IF i < MaxCams THEN Outcomes ELSE {"not_opened"}

\* ListBackends, going on to the next backend after a frame was read.
RECURSIVE ListBackendsAll(_, _, _)
ListBackendsAll(outs, n, st) ==
  IF n > Len(outs) THEN st
  ELSE LET at == Attempt(st) IN
       CASE outs[n] = "ctor_raise" -> ListBackendsAll(outs, n + 1, ReleaseIfSet(at))
         [] outs[n] = "read_raise" ->
              ListBackendsAll(outs, n + 1, ReleaseIfSet(Construct(at, outs[n])))
         [] outs[n] = "ok" ->
              ListBackendsAll(outs, n + 1, Hit(Release(Construct(at, outs[n]))))
         [] OTHER -> ListBackendsAll(outs, n + 1, Release(Construct(at, outs[n])))

\* The loop of list_cameras over the backends (camera.py 58-78), from
\* position n on; the capture is released on every path.
RECURSIVE ListBackends(_, _, _)
ListBackends(outs, n, st) ==
  IF n > Len(outs) THEN st
  ELSE LET at == Attempt(st) IN
       CASE outs[n] = "ctor_raise" -> ListBackends(outs, n + 1, ReleaseIfSet(at))
         [] outs[n] = "read_raise" ->
              ListBackends(outs, n + 1, ReleaseIfSet(Construct(at, outs[n])))
         [] outs[n] = "ok" -> Hit(Release(Construct(at, outs[n])))
         [] OTHER -> ListBackends(outs, n + 1, Release(Construct(at, outs[n])))

\* One index of list_cameras (camera.py 30-82): the probe with the default
\* backend, met with outcome d, then the loop over the backends, met with
\* outs.  An exception in the default probe ends the index in the outer
\* except branch.
ListIndex(d, outs) ==
  LET at == Attempt(NoCapture) IN
  CASE d = "ctor_raise" -> ReleaseIfSet(at)
    [] d = "read_raise" -> ReleaseIfSet(Construct(at, d))
    [] d = "ok" -> Hit(Release(Construct(at, d)))
    [] OTHER -> ListBackends(outs, 1, Release(Construct(at, d)))

\* The descriptor list_cameras appends for index i (camera.py 36-42, 64-70);
\* index is not a field of the result: it records the i that produced it.
CameraDescriptor(i) == [device_id |-> CamIdOf(i), index |-> i]

\* list_cameras starts with an empty list; it has no await and keeps the
\* event loop to its return.
ListCamerasBegin(t) ==
  /\ Enter(t, "camera")
  /\ Suspend(t, "list_cameras", "camera", "list", NoArgs, 0)
  /\ blocked' = t
  /\ index' = 0
  /\ cameras' = <<>>
  /\ openable' = {}
  /\ UNCHANGED <<scope, app, JobVars, handles, devices>>

\* The descriptors one index adds to the list: one for each probe of the
\* index that gave a frame (camera.py 36-42, 64-70).
Appended(i, st) == [n \in 1..st.hits |-> CameraDescriptor(i)]

\* list_cameras probes index i; after the last index it returns the list.
ListCamerasIndex(t) ==
  /\ Resume(t, "list")
  /\ \E probe \in UNION {
          {[st |-> ListIndex(d, outs),
            ok |-> d = "ok" \/ \E n \in DOMAIN outs : outs[n] = "ok"] :
             d \in IndexOutcomes(index),
             outs \in [1..Len(Backends(sys)) -> IndexOutcomes(index)]} :
          sys \in Systems} :
       LET st == probe.st
           a == [args[t] EXCEPT !.after = @ + st.after]
       IN
       /\ cameras' = cameras \o Appended(index, st)
       /\ openable' = IF probe.ok THEN openable \cup {index} ELSE openable
       /\ handles' = handles + st.open
       /\ IF index + 1 = NumIndices
            THEN ReturnWith(t, "list_cameras", "camera", "listed", a) /\ blocked' = 0
            ELSE /\ args' = [args EXCEPT ![t] = a]
                 /\ UNCHANGED <<pc, op, cat, job, returned, blocked>>
  /\ index' = index + 1
  /\ UNCHANGED <<scope, app, JobVars, devices>>

\* --------------------------------------------------------- enumeration tools
\* A tool hands r to the caller, or the exception it lets escape.
Listed(t, o, r, list) ==
  /\ Return(t, o, "enumeration", r)
  /\ devices' = list

\* The positions of the lines that accept holds for, in order.
RECURSIVE Accepted(_, _, _)
Accepted(lines, n, accept) ==
  IF n > Len(lines) THEN <<>>
  ELSE (IF lines[n] \in accept THEN <<n>> ELSE <<>>) \o Accepted(lines, n + 1, accept)

\* What subprocess.run(..., check=True) meets: the command is not on the
\* host (FileNotFoundError), it exits non-zero (CalledProcessError), it succeeds.
RunOutcomes == {"missing", "nonzero", "ok"}

\* A line of `lpstat -p`: an enabled printer, a disabled one, anything else.
LpstatLines == {"enabled", "disabled", "other"}
\* A line of the wmic CSV after its header: node and name, node only, blank.
WmicLines == {"row", "noname", "blank"}
\* The output of `lpoptions -d`: empty, one word, two or more.
LpoptionsOutputs == {"empty", "one", "two"}

Outputs(kinds) == UNION {[1..n -> kinds] : n \in 0..MaxLines}

\* list_printers (printer.py 18-69): only CalledProcessError is caught.
ListPrinters(t) ==
  /\ Enter(t, "enumeration")
  /\ \E sys \in Systems, run \in RunOutcomes :
       IF run = "missing" THEN
         Listed(t, "list_printers", "raised", <<>>)
       ELSE IF sys = "windows" THEN
         IF run = "nonzero"
           THEN Listed(t, "list_printers", "listed", <<>>)
           ELSE \E lines \in Outputs(WmicLines) :
                  Listed(t, "list_printers", "listed", Accepted(lines, 1, {"row"}))
       ELSE IF run = "ok" THEN
         \E lines \in Outputs(LpstatLines) :
           Listed(t, "list_printers", "listed", Accepted(lines, 1, {"enabled"}))
       ELSE
         \E fallback \in RunOutcomes :
           CASE fallback = "missing" -> Listed(t, "list_printers", "raised", <<>>)
             [] fallback = "nonzero" -> Listed(t, "list_printers", "listed", <<>>)
             [] fallback = "ok" ->
                  \E out \in LpoptionsOutputs :
                    Listed(t, "list_printers", "listed",
                           IF out = "two" THEN <<1>> ELSE <<>>)
  /\ UNCHANGED <<scope, app, JobVars, blocked, handles, index, cameras, openable>>

\* The descriptor list_displays appends for monitor i (screen.py 30-39);
\* index is not a field of the result: it records the i that produced it.
DisplayDescriptor(i) == [device_id |-> DisplayIdOf(i), index |-> i]

\* list_displays (screen.py 25-41): get_monitors() is called outside any try.
ListDisplays(t) ==
  /\ Enter(t, "enumeration")
  /\ \/ Listed(t, "list_displays", "raised", <<>>)         \* get_monitors() raises
     \/ \E monitors \in MonitorCounts :
          Listed(t, "list_displays", "listed",
                 [i \in 1..monitors |-> DisplayDescriptor(i - 1)])
  /\ UNCHANGED <<scope, app, JobVars, blocked, handles, index, cameras, openable>>

\* What get_device_info_by_index gives for a device: input only, output
\* only, both, or it raises.
DeviceInfos == {"in", "out", "both", "raises"}

\* device_data of list_audio_devices (audio.py 40-48) for a device of the
\* given kind.
DeviceData(kind) ==
  [name |-> "name",
   max_input_channels |-> IF kind \in {"in", "both"} THEN 1 ELSE 0,
   max_output_channels |-> IF kind \in {"out", "both"} THEN 1 ELSE 0,
   default_sample_rate |-> 44100,
   host_api |-> "host_api"]

\* The records of the devices at the given positions.
Records(info, positions) ==
  [p \in DOMAIN positions |-> DeviceData(info[positions[p]])]

\* list_audio_devices (audio.py 22-69): every failure becomes an error entry
\* of the result; a device whose query raises is skipped.
ListAudioDevices(t) ==
  /\ Enter(t, "enumeration")
  /\ \/ \E r \in {"init_error", "listing_error"} :
          Listed(t, "list_audio_devices", r, <<>>)
     \/ \E n \in 0..MaxDevices : \E info \in [1..n -> DeviceInfos] :
          Listed(t, "list_audio_devices", "listed",
                 [input_devices |-> Records(info, Accepted(info, 1, {"in", "both"})),
                  output_devices |-> Records(info, Accepted(info, 1, {"out", "both"}))])
  /\ UNCHANGED <<scope, app, JobVars, blocked, handles, index, cameras, openable>>

\* The fixed list of list_storage_devices (storage.py 20-42).
StorageDevices ==
  << [device_id |-> 0, removable |-> FALSE, mounted |-> TRUE],
     [device_id |-> 1, removable |-> TRUE, mounted |-> TRUE],
     [device_id |-> 2, removable |-> TRUE, mounted |-> FALSE] >>

\* list_storage_devices (storage.py 17-50)
ListStorageDevices(t) ==
  /\ Enter(t, "enumeration")
  /\ \E removable_only \in BOOLEAN, mounted_only \in BOOLEAN :
       Listed(t, "list_storage_devices", "listed",
              SelectSeq(StorageDevices,
                        LAMBDA d : /\ (removable_only => d.removable)
                                   /\ (mounted_only => d.mounted)))
  /\ UNCHANGED <<scope, app, JobVars, blocked, handles, index, cameras, openable>>

\* list_usb_devices (usb.py 16-40)
ListUsbDevices(t) ==
  /\ Enter(t, "enumeration")
  /\ Listed(t, "list_usb_devices", "listed", <<0, 1, 2>>)
  /\ UNCHANGED <<scope, app, JobVars, blocked, handles, index, cameras, openable>>

\* ------------------------------------------------------------ printer.py
\* A tool hands r and the data of its result to the caller, or lets the
\* exception escape (r = "raised").
AnswerWith(t, o, k, r, info, a) ==
  /\ ReturnWith(t, o, k, r, a)
  /\ devices' = info

Answer(t, o, k, r, info) == AnswerWith(t, o, k, r, info, NoArgs)

\* The default printer print_file looks up when printer_name is None
\* (printer.py 92-160): the outcome of the first command, whether its output
\* names a printer, the outcome of the lpoptions fallback and its output.
DefaultPrinter(sys, run, match, fallback, out) ==
  IF run = "missing" THEN "raised"                 \* FileNotFoundError is not caught
  ELSE IF sys = "windows" THEN
    (IF run = "nonzero" THEN "lookup_failed"
     ELSE IF match THEN "found" ELSE "no_default_printer")
  ELSE IF run = "ok" /\ match THEN "found"
  ELSE IF fallback = "missing" THEN "raised"
  ELSE IF fallback = "nonzero" THEN "no_default_printer"
  ELSE IF out = "two" THEN "found" ELSE "no_default_printer"

\* ---- the standard output of the spooler command, as a sequence of characters
LpMarker == <<"r", "e", "q", "u", "e", "s", "t", " ", "i", "d", " ", "i", "s", " ">>
WinMarker == <<"j", "o", "b", "-", "i", "d", ":">>

\* The text the job id is searched for after (printer.py 191, 217).
Marker(sys) == IF sys = "windows" THEN WinMarker ELSE LpMarker

\* \S+ at the head of s: its longest prefix without white space.
RECURSIVE Run(_)
Run(s) ==
  IF s = <<>> \/ s[1] = " " THEN <<>>
  ELSE <<s[1]>> \o Run(SubSeq(s, 2, Len(s)))

\* Search, matching wherever the marker is, with or without a job id.
SearchMarkerOnly(text, marker) ==
  [match |-> \E p \in 1..Len(text) : StartsWith(SubSeq(text, p, Len(text)), marker),
   group |-> <<>>]

\* re.search(marker + r"(\S+)", text): the leftmost place where the marker
\* stands with a character that is no white space after it; group(1) is
\* the run of such characters that follows.
RECURSIVE Search(_, _)
Search(text, marker) ==
  IF text = <<>> THEN [match |-> FALSE, group |-> <<>>]
  ELSE IF /\ StartsWith(text, marker)
          /\ Run(SubSeq(text, Len(marker) + 1, Len(text))) # <<>>
    THEN [match |-> TRUE, group |-> Run(SubSeq(text, Len(marker) + 1, Len(text)))]
  ELSE Search(SubSeq(text, 2, Len(text)), marker)

\* What the spooler command may write: nothing, the job id after the marker
\* of either platform, with and without text before and after it, the
\* marker alone, a text without a marker.
Stdouts ==
  { <<>>,
    LpMarker \o <<"H", "P", "-", "7">>,
    LpMarker \o <<"H", "P", "-", "7", " ", "(", "1", ")">>,
    <<"o", "k", " ">> \o LpMarker \o <<"7">>,
    LpMarker \o <<" ">> \o LpMarker \o <<"8">>,
    LpMarker,
    WinMarker \o <<"w", "i", "n", "-", "7">>,
    WinMarker \o <<" ", "7">>,
    <<"e", "r", "r">> }

\* os.unlink(file_path) of the finally (printer.py 234-238), reached inside
\* the `with` block, that is with the file still open: on Windows an open
\* file cannot be removed, the OSError is passed over and the file stays.
Unlink(sys) == IF sys = "windows" THEN "exists" ELSE "removed"

CopyCounts == {1, 2}                   \* copies: ge=1

\* The PowerShell command of the Windows branch (printer.py 171-182): it
\* names the file and the printer and nothing else.
PowershellCommand == <<"powershell", "-Command", "Verb=Print">>

\* lp_command (printer.py 205-212).
LpCommand(copies, double_sided, color) ==
  <<"lp", "-d", "printer_name", "-n", ToString(copies)>>
    \o (IF double_sided THEN <<"-o", "sides=two-sided-long-edge">> ELSE <<>>)
    \o (IF ~color THEN <<"-o", "ColorModel=Gray">> ELSE <<>>)
    \o <<"file_path">>

\* The command print_file runs (printer.py 170-216).
Command(sys, copies, double_sided, color) ==
  IF sys = "windows" THEN PowershellCommand
                     ELSE LpCommand(copies, double_sided, color)

\* The print itself (printer.py 162-238): the temporary file is made and
\* written outside the try; inside it every exception becomes a result.
Spool(t, sys) ==
  \/ Answer(t, "print_file", "printer", "raised", <<>>)      \* NamedTemporaryFile raises
  \/ AnswerWith(t, "print_file", "printer", "raised", <<>>,   \* write or flush raises
                [NoArgs EXCEPT !.system = sys, !.temp = "exists"])
  \/ \E run \in RunOutcomes, copies \in CopyCounts, double_sided \in BOOLEAN,
        color \in BOOLEAN :
       LET a == [NoArgs EXCEPT !.system = sys, !.run = run, !.temp = Unlink(sys),
                               !.copies = copies, !.double_sided = double_sided,
                               !.color = color,
                               !.command = Command(sys, copies, double_sided, color)]
       IN
       CASE run = "missing" ->
              AnswerWith(t, "print_file", "printer", "unexpected_error",
                         <<[error |-> "Unexpected error"]>>, a)
         [] run = "nonzero" ->
              AnswerWith(t, "print_file", "printer", "printing_failed",
                         <<[error |-> "Printing failed"]>>, a)
         [] run = "ok" ->
              \E text \in Stdouts :
                LET job_id_match == Search(text, Marker(sys)) IN
                IF job_id_match.match
                  THEN AnswerWith(t, "print_file", "printer", "printed",
                                  <<[job_id |-> job_id_match.group]>>,
                                  [a EXCEPT !.stdout = text])
                  ELSE AnswerWith(t, "print_file", "printer", "no_job_id",
                                  <<[error |-> "Failed to retrieve print job ID"]>>,
                                  [a EXCEPT !.stdout = text])

\* print_file (printer.py 76-238)
PrintFile(t) ==
  /\ Enter(t, "printer")
  /\ \E sys \in Systems, printer_name \in {"none", "given"} :
       IF printer_name = "given" THEN Spool(t, sys)
       ELSE \E run \in RunOutcomes, match \in BOOLEAN,
               fallback \in RunOutcomes, out \in LpoptionsOutputs :
              LET found == DefaultPrinter(sys, run, match, fallback, out) IN
              IF found = "found" THEN Spool(t, sys)
              ELSE Answer(t, "print_file", "printer", found, <<>>)
  /\ UNCHANGED <<scope, app, JobVars, blocked, handles, index, cameras, openable>>

\* print_as_pdf (printer.py 245-275): every exception becomes a result.
PrintAsPdf(t) ==
  /\ Enter(t, "printer")
  /\ \E file_format \in {"pdf", "txt"} :
       IF file_format # "pdf"
         THEN Answer(t, "print_as_pdf", "printer", "bad_format", <<>>)
         ELSE \E r \in {"saved", "save_failed", "unexpected_error"} :
                Answer(t, "print_as_pdf", "printer", r, <<>>)
  /\ UNCHANGED <<scope, app, JobVars, blocked, handles, index, cameras, openable>>

\* What the job query writes: nothing, a line the tool cannot take the page
\* counts from, a line with both page counts.
JobOutputs == {"empty", "unparsed", "pages"}

\* progress of get_print_job (printer.py 307-311, 342), in whole percent.
Progress(pages_printed, total_pages) == (pages_printed * 100) \div total_pages

JobInfo(pages_printed, total_pages, progress) ==
  <<[pages_printed |-> pages_printed, total_pages |-> total_pages, progress |-> progress]>>

\* get_print_job (printer.py 282-357): only CalledProcessError is caught; the
\* Windows branch guards the division, the other branch does not.
GetPrintJob(t) ==
  /\ Enter(t, "printer")
  /\ \E sys \in Systems, run \in RunOutcomes, out \in JobOutputs :
     \E pages_printed \in 0..MaxPages, total_pages \in 0..MaxPages :
       CASE run = "missing" -> Answer(t, "get_print_job", "printer", "raised", <<>>)
         [] run = "nonzero" -> Answer(t, "get_print_job", "printer", "job_info_error", <<>>)
         [] run = "ok" /\ out = "empty" ->
              Answer(t, "get_print_job", "printer", "no_such_job", <<>>)
         [] run = "ok" /\ out = "unparsed" ->
              Answer(t, "get_print_job", "printer",
                     IF sys = "windows" THEN "printing" ELSE "parse_failed", <<>>)
         [] run = "ok" /\ out = "pages" ->
              IF total_pages > 0 THEN
                Answer(t, "get_print_job", "printer", "printing",
                       JobInfo(pages_printed, total_pages, Progress(pages_printed, total_pages)))
              ELSE IF sys = "windows" THEN
                Answer(t, "get_print_job", "printer", "printing",
                       JobInfo(pages_printed, total_pages, 0))
              ELSE
                Answer(t, "get_print_job", "printer", "raised", <<>>)  \* ZeroDivisionError
  /\ UNCHANGED <<scope, app, JobVars, blocked, handles, index, cameras, openable>>

\* cancel_print_job (printer.py 362-400): only CalledProcessError is caught.
CancelPrintJob(t) ==
  /\ Enter(t, "printer")
  /\ \E run \in RunOutcomes :
       CASE run = "missing" -> Answer(t, "cancel_print_job", "printer", "raised", <<>>)
         [] run = "nonzero" -> Answer(t, "cancel_print_job", "printer", "cancel_failed", <<>>)
         [] run = "ok" -> Answer(t, "cancel_print_job", "printer", "cancelled", <<>>)
  /\ UNCHANGED <<scope, app, JobVars, blocked, handles, index, cameras, openable>>

\* ------------------------------------------------- screen.py: capture_screenshot
\* capture_screenshot (screen.py 48-174): the whole handler is inside a try
\* whose last except branch takes every exception.
CaptureScreenshot(t) ==
  /\ Enter(t, "screenshot")
  /\ \E device_id \in DisplayIds :
       IF DisplayIndex(device_id).error = "ValueError" THEN
         Answer(t, "capture_screenshot", "screenshot", "invalid_device_id", <<>>)
       ELSE
         \/ Answer(t, "capture_screenshot", "screenshot", "capture_failed", <<>>)
         \/ \E monitors \in MonitorCounts :
              LET c == [NoArgs EXCEPT !.device_id = device_id, !.monitors = monitors,
                                      !.display = DisplayIndex(device_id).value]
              IN
              IF monitors = 0 THEN
                Answer(t, "capture_screenshot", "screenshot", "no_displays", <<>>)
              ELSE IF DisplayIndex(device_id).value >= monitors THEN
                AnswerWith(t, "capture_screenshot", "screenshot", "display_not_found",
                           <<>>, c)
              ELSE
                \E r \in {"permission_denied", "not_created", "captured"} :
                  AnswerWith(t, "capture_screenshot", "screenshot", r,
                             <<[mon |-> DisplayIndex(device_id).value + 1]>>, c)
  /\ UNCHANGED <<scope, app, JobVars, blocked, handles, index, cameras, openable>>

\* ------------------------------------------------- storage.py, usb.py: fixed answers
\* The tools that answer with fixed data (storage.py 56-89, usb.py 46-88).
StubTools ==
  {"get_storage_info", "mount_storage", "unmount_storage",
   "get_usb_device_info", "eject_usb_device", "get_usb_events"}

StubTool(t) ==
  /\ Enter(t, "stubs")
  /\ \E o \in StubTools : Answer(t, o, "stubs", "ok", <<>>)
  /\ UNCHANGED <<scope, app, JobVars, blocked, handles, index, cameras, openable>>

\* ------------------------------------------------------------ specification
Next ==
  \/ \E t \in Tasks :
       \/ VideoStartBegin(t)
       \/ VideoStartProbe(t)
       \/ VideoStartAfterTimer(t)
       \/ ScreenStart(t)
       \/ StartupCheck(t)
       \/ StopEncoder(t, "video")
       \/ StopEncoder(t, "screen")
       \/ StopEncoderWait(t)
       \/ AudioStart(t)
       \/ StopAudioBegin(t)
       \/ StopAudioFinish(t)
       \/ PlayAudio(t)
       \/ GetCameraInfo(t)
       \/ CaptureImageBegin(t)
       \/ CaptureImageFinish(t)
       \/ ListCamerasBegin(t)
       \/ ListCamerasIndex(t)
       \/ ListPrinters(t)
       \/ ListDisplays(t)
       \/ ListAudioDevices(t)
       \/ ListStorageDevices(t)
       \/ ListUsbDevices(t)
       \/ PrintFile(t)
       \/ PrintAsPdf(t)
       \/ GetPrintJob(t)
       \/ CancelPrintJob(t)
       \/ CaptureScreenshot(t)
       \/ StubTool(t)
  \/ \E j \in Jobs :
       \/ ProcExit(j)
       \/ ThreadLoop(j)
       \/ ThreadRead(j)
       \/ PlayThreadEnd(j)
  \/ Settle

Spec == Init /\ [][Next]_vars

\* create_app reaches its next `if` (server.py 14-30).
RegisterNext ==
  /\ app.step < Len(Modules)
  /\ app' = [app EXCEPT !.step = @ + 1,
                         !.tools = RegisterIfEnabled(app, Modules[app.step + 1])]
  /\ UNCHANGED <<scope, pc, op, cat, args, job, returned, slot, proc, sig, thr,
                 frames, stop_event, stream, pa, play, blocked, started, leaked,
                 handles, index, cameras, openable, devices>>

\* create_app is called with any combination of the six flags.
InitApp ==
  /\ scope = "create_app"
  /\ app \in {NewApp(settings) : settings \in [ModuleNames -> BOOLEAN]}
  /\ Start

NextApp == RegisterNext

SpecApp == InitApp /\ [][NextApp]_vars

\* The recorder object of a background job of category k that was started
\* before the calls the behaviour follows.
PriorJob(k) ==
  CASE k = "audio" -> MaxTasks + 2
    [] k = "video" -> MaxTasks + 3
    [] k = "screen" -> MaxTasks + 4

PriorJobs == {PriorJob(k) : k \in Cats}

\* The clients call the recording tools of one category while the other two
\* categories each hold a background job started earlier, which stays
\* active: its encoder runs, its audio thread reads from its open stream.
InitRecording ==
  /\ scope \in Cats
  /\ app = Created(NewApp(DefaultSettings))
  /\ \E others \in {Cats \ {scope}} :
       LET prior == {PriorJob(k) : k \in others} IN
       /\ slot = [k \in Cats |-> IF k \in others THEN NewJob(PriorJob(k), TmpPath) ELSE None]
       /\ started = [k \in Cats |-> IF k \in others THEN PriorJob(k) ELSE 0]
       /\ proc = [j \in Jobs |-> IF j \in prior \ {PriorJob("audio")} THEN "running" ELSE "none"]
       /\ thr = [j \in Jobs |-> IF j \in prior \cap {PriorJob("audio")} THEN "loop" ELSE "none"]
       /\ stream = [j \in Jobs |-> IF j \in prior \cap {PriorJob("audio")} THEN "open" ELSE "none"]
       /\ pa = [j \in Jobs |-> IF j \in prior \cap {PriorJob("audio")} THEN "alive" ELSE "none"]
  /\ pc = [t \in Tasks |-> "idle"]
  /\ op = [t \in Tasks |-> "none"]
  /\ cat = [t \in Tasks |-> "none"]
  /\ args = [t \in Tasks |-> NoArgs]
  /\ job = [t \in Tasks |-> 0]
  /\ returned = NoResult
  /\ sig = [j \in Jobs |-> <<>>]
  /\ frames = [j \in Jobs |-> 0]
  /\ stop_event = [j \in Jobs |-> FALSE]
  /\ play = [j \in Jobs |-> "none"]
  /\ blocked = 0
  /\ leaked = {}
  /\ handles = 0
  /\ index = 0
  /\ cameras = <<>>
  /\ openable = {}
  /\ devices = <<>>

NextRecording ==
  \/ \E t \in Tasks :
       \/ VideoStartBegin(t)
       \/ VideoStartProbe(t)
       \/ VideoStartAfterTimer(t)
       \/ ScreenStart(t)
       \/ StartupCheck(t)
       \/ StopEncoder(t, "video")
       \/ StopEncoder(t, "screen")
       \/ StopEncoderWait(t)
       \/ AudioStart(t)
       \/ StopAudioBegin(t)
       \/ StopAudioFinish(t)
  \/ \E j \in Jobs \ PriorJobs :
       \/ ProcExit(j)
       \/ ThreadLoop(j)
       \/ ThreadRead(j)
  \/ Settle

SpecRecording == InitRecording /\ [][NextRecording]_vars

\* The clients call the recording tools of one category; nothing is active
\* at the start.
InitStop ==
  /\ scope \in Cats
  /\ app = Created(NewApp(DefaultSettings))
  /\ Start

NextStop ==
  \/ \E t \in Tasks :
       \/ VideoStartBegin(t)
       \/ VideoStartProbe(t)
       \/ VideoStartAfterTimer(t)
       \/ ScreenStart(t)
       \/ StartupCheck(t)
       \/ StopEncoder(t, "video")
       \/ StopEncoder(t, "screen")
       \/ StopEncoderWait(t)
       \/ AudioStart(t)
       \/ StopAudioBegin(t)
       \/ StopAudioFinish(t)
  \/ \E j \in Jobs :
       \/ ProcExit(j)
       \/ ThreadLoop(j)
       \/ ThreadRead(j)
  \/ Settle

\* A stop handler that holds the event loop in `thread.join(timeout=5.0)` or
\* in `process.wait(timeout=10)` goes on when the wait is over: the thread
\* that runs the event loop is not starved.  Nothing is assumed of the
\* recorders: the audio thread may stay in its read and the encoder may run
\* on for ever.
StopFairness ==
  \A t \in Tasks : WF_vars(StopAudioFinish(t)) /\ WF_vars(StopEncoderWait(t))

SpecStop == InitStop /\ [][NextStop]_vars /\ StopFairness

\* ------------------------------------------------------------------ claims
\* A start call of category k enters its handler in this step.
StartEnters(k) ==
  \E t \in Tasks :
    /\ pc[t] = "idle"
    /\ \/ pc'[t] # "idle" /\ op'[t] = "start" /\ cat'[t] = k
       \/ /\ pc'[t] = "idle" /\ returned = NoResult
          /\ returned'.call = t /\ returned'.op = "start" /\ returned'.cat = k

\* A stop call of category k enters its handler in this step.
StopEnters(k) ==
  \E t \in Tasks :
    /\ pc[t] = "idle"
    /\ \/ pc'[t] # "idle" /\ op'[t] = "stop" /\ cat'[t] = k
       \/ /\ pc'[t] = "idle" /\ returned = NoResult
          /\ returned'.call = t /\ returned'.op = "stop" /\ returned'.cat = k

\* C1: a start call made while the slot of its category holds a job returns
\* the already-in-progress error, whatever its parameters, and leaves the
\* slot, the encoder processes, the audio thread, its stream and the PyAudio
\* instance as they were.
C1_StartWhileActiveRejected ==
  [][\A k \in Cats :
       (StartEnters(k) /\ slot[k] # None) =>
         /\ returned'.result = "already_in_progress"
         /\ \A t \in Tasks : pc'[t] = pc[t]
         /\ slot' = slot
         /\ proc' = proc /\ sig' = sig
         /\ thr' = thr /\ stop_event' = stop_event
         /\ stream' = stream /\ pa' = pa]_vars

\* C1 witness: a start of video was rejected while the encoder of the
\* active job runs.
C1_Witness ==
  /\ returned.op = "start" /\ returned.cat = "video"
  /\ returned.result = "already_in_progress"
  /\ slot["video"] # None
  /\ proc[slot["video"].job] = "running"

\* C2: between the idle check of a background start and its slot assignment
\* no other start call of the same category is past its own idle check.
C2_CheckAndSetAtomic ==
  \A k \in Cats : \A t1, t2 \in Tasks :
    ( /\ t1 # t2
      /\ op[t1] = "start" /\ cat[t1] = k /\ pc[t1] \in {"probe", "timer"}
      /\ args[t1].duration = Background )
    => ~(op[t2] = "start" /\ cat[t2] = k /\ pc[t2] \in {"probe", "timer"})

\* C3: a stop call made while the slot of its category is Idle returns the
\* no-active-recording error in the same step, without waiting for a thread
\* or a process, and leaves all three slots and every recorder untouched.
C3_StopWhileIdleRejected ==
  [][\A k \in Cats :
       (StopEnters(k) /\ slot[k] = None) =>
         /\ returned'.op = "stop" /\ returned'.result = "no_active"
         /\ \A t \in Tasks : pc'[t] = "idle" <=> pc[t] = "idle"
         /\ blocked' = blocked
         /\ slot' = slot
         /\ proc' = proc /\ sig' = sig
         /\ thr' = thr /\ stop_event' = stop_event
         /\ stream' = stream /\ pa' = pa]_vars

\* C3 witness: a stop of audio found no job.
C3_Witness ==
  /\ returned.op = "stop" /\ returned.cat = "audio"
  /\ returned.result = "no_active"
  /\ \A k \in Cats : slot[k] = None

\* C4: when a stop call that found an active job returns, the slot of its
\* category is Idle, whatever the outcome of the flush.
C4_StopLeavesIdle ==
  (returned.op = "stop" /\ returned.result # "no_active")
    => slot[returned.cat] = None

\* C5: the job whose background start returned "started", with no stop call
\* of the category made since, is the job the slot holds.
C5_StartedJobInSlot ==
  \A k \in Cats : started[k] # 0 => slot[k].job = started[k]

\* C6: when a start call returns an error other than already-in-progress,
\* the slot of its category is Idle.
C6_FailedStartLeavesIdle ==
  ( /\ returned.op = "start"
    /\ returned.result \notin {"started", "recorded", "already_in_progress"} )
    => slot[returned.cat] = None

\* C7: the camera tools have released every capture handle they opened
\* when they return: the handles open are those of the capture_image calls
\* waiting in their timer.
C7_CaptureHandlesReleased ==
  handles = Cardinality({t \in Tasks : pc[t] = "shutter"})

\* C7 witness: capture_image failed to save after holding the capture
\* through its timer, and no handle is open.
C7_Witness ==
  /\ returned.op = "capture_image" /\ returned.result = "save_failed"
  /\ handles = 0

\* C8: an audio call that returns without leaving an active job or a running
\* playback thread has terminated the PyAudio instance and closed the stream
\* it used; a stop_record_audio that found a job has released both.
C8_AudioResourcesReleased ==
  (\A t \in Tasks : pc[t] = "idle") =>
    /\ leaked \cap {"pyaudio", "stream"} = {}
    /\ \A j \in Jobs :
         (pa[j] = "alive" \/ stream[j] = "open")
           => (slot["audio"].job = j \/ play[j] = "playing")
    /\ (returned.op = "stop" /\ returned.cat = "audio" /\ returned.result # "no_active")
         => \A j \in Jobs : pa[j] # "alive" /\ stream[j] # "open"

\* C9: list_cameras returns a descriptor for exactly the indices where some
\* backend in the probe order opens the device and reads a frame, and it
\* returns rather than raises.
C9_ListsOpenableIndices ==
  returned.op = "list_cameras" =>
    /\ returned.result = "listed"
    /\ {cameras[n].index : n \in DOMAIN cameras} = openable

\* The enumeration tools.
EnumerationTools ==
  {"list_cameras", "list_audio_devices", "list_displays", "list_printers",
   "list_storage_devices", "list_usb_devices"}

\* C10: an enumeration tool returns a result to its caller and lets no
\* exception escape, whatever the platform query does.
C10_EnumerationNeverRaises ==
  returned.op \in EnumerationTools => returned.result # "raised"

\* C11: a tool that is no enumeration tool hands a result object to its
\* caller and lets no exception escape, whatever its external collaborator
\* does.
C11_ToolsNeverRaise ==
  returned.op \notin EnumerationTools => returned.result # "raised"

\* The identifiers of list_cameras parse back to the index that produced
\* them and pass the identifier check of the camera tools.
CameraIdsRoundTrip ==
  returned.op = "list_cameras" =>
    \A n \in DOMAIN cameras :
      /\ CamIndex(cameras[n].device_id) = [error |-> "none", value |-> cameras[n].index]
      /\ \A sys \in Systems : VideoValidate(sys, cameras[n].device_id, Background, 15) = "ok"

\* The identifiers of list_displays parse back to the index that produced them.
DisplayIdsRoundTrip ==
  (returned.op = "list_displays" /\ returned.result = "listed") =>
    \A n \in DOMAIN devices :
      DisplayIndex(devices[n].device_id) = [error |-> "none", value |-> devices[n].index]

\* The keys under which a record could carry the device index that
\* record_audio and play_audio take.
IndexKeys == {"index", "device_index", "device_id"}

\* Every record of list_audio_devices carries the index of its device.
AudioRecordsIdentified ==
  (returned.op = "list_audio_devices" /\ returned.result = "listed") =>
    \A list \in {devices.input_devices, devices.output_devices} :
      \A n \in DOMAIN list : DOMAIN list[n] \cap IndexKeys # {}

\* C12: every identifier an enumeration produces is accepted unmodified by
\* the operations of its category and resolves to the index that produced
\* it: camN of list_cameras, displayN of list_displays, and the identifier
\* in the records of list_audio_devices.
C12_EnumeratedIdsAccepted ==
  CameraIdsRoundTrip /\ DisplayIdsRoundTrip /\ AudioRecordsIdentified

\* C13: the operations of one category leave the slots of the other two as
\* they were, and a job active in another category makes neither a start nor
\* a stop fail: a start that finds its own slot Idle is not rejected as
\* already in progress, a stop that finds its own slot occupied is not
\* answered with the no-active-recording error.
C13_CategoriesIndependent ==
  [][\A k \in Cats :
       /\ k # scope => slot'[k] = slot[k]
       /\ (StartEnters(k) /\ slot[k] = None) => returned'.result # "already_in_progress"
       /\ (StopEnters(k) /\ slot[k] # None /\ returned' # returned)
            => returned'.result # "no_active"]_vars

\* C13 witness: a background start of video returned "started" while an
\* audio job and a screen job are active: all three slots hold a running job.
C13_Witness ==
  /\ returned.op = "start" /\ returned.cat = "video" /\ returned.result = "started"
  /\ \A k \in Cats : slot[k] # None
  /\ proc[slot["video"].job] = "running"
  /\ proc[slot["screen"].job] = "running"
  /\ thr[slot["audio"].job] \in {"loop", "read"}

\* C14: while a fixed-duration start of a category waits between its idle
\* check and its return, no other start call of that category gets past its
\* own idle check: every start made in that interval is rejected as already
\* in progress.  (A call at the resolution probe holds the event loop, so it
\* entered after the waiting call.)
C14_FixedDurationExcludesStarts ==
  \A t \in Tasks :
    ( /\ op[t] = "start" /\ pc[t] = "timer"
      /\ args[t].duration # Background )
    => \A u \in Tasks \ {t} :
         ~(op[u] = "start" /\ cat[u] = cat[t] /\ pc[u] = "probe")

\* The results a start call gives only for a fixed duration, after the
\* recording has ended.
FixedResults == {"recorded", "record_failed", "no_output_file"}

\* C15: when a fixed-duration start returns, the slot of its category is
\* Idle.
C15_FixedDurationLeavesIdle ==
  (returned.op = "start" /\ returned.result \in FixedResults)
    => slot[returned.cat] = None

\* C16: when create_app returns, the registered tools are exactly the tools
\* of the modules whose enable flag is set: every tool of an enabled module
\* is registered and a disabled module contributes none.
C16_RegistersEnabledModules ==
  app.step = Len(Modules) =>
    /\ app.tools = UNION {ToolsOf(c) : c \in {m \in ModuleNames : app.settings[m]}}
    /\ \A c \in ModuleNames :
         IF app.settings[c] THEN ToolsOf(c) \subseteq app.tools
                            ELSE ToolsOf(c) \cap app.tools = {}

\* C16 witness: create_app returned with camera and usb enabled and the
\* other four modules disabled.
C16_Witness ==
  /\ app.step = Len(Modules)
  /\ {c \in ModuleNames : app.settings[c]} = {"camera", "usb"}
  /\ "list_cameras" \in app.tools /\ "get_usb_events" \in app.tools

\* C17: every background encoder process that runs is the process of the
\* job its category's slot holds, and none was left running out of reach.
C17_RunningEncoderInSlot ==
  /\ "process" \notin leaked
  /\ \A j \in Jobs :
       proc[j] = "running" => \E k \in {"video", "screen"} : slot[k].job = j

\* C18: at most one background audio thread is alive and at most one
\* background encoder process of a category runs, counting the one no slot
\* refers to any more.
C18_OneUnitPerCategory ==
  /\ Cardinality({j \in Jobs : thr[j] \in {"loop", "read"}})
       + (IF "thread" \in leaked THEN 1 ELSE 0) <= 1
  /\ Cardinality({j \in Jobs : proc[j] = "running"})
       + (IF "process" \in leaked THEN 1 ELSE 0) <= 1

\* C19: the background audio thread tests the stop signal before every
\* read.  Once the signal is set, a thread at the head of its loop ends
\* without another read; a chunk is appended only by a read that was in
\* progress, one chunk at a time, after which the thread is back at the head
\* of its loop; a read that raises ends the thread.
C19_ThreadStopsAtSignal ==
  [][\A j \in Jobs :
       /\ (stop_event[j] /\ thr[j] = "loop" /\ thr'[j] # thr[j])
            => thr'[j] \in {"done", "none"} /\ frames'[j] <= frames[j]
       /\ frames'[j] > frames[j]
            => thr[j] = "read" /\ thr'[j] = "loop" /\ frames'[j] = frames[j] + 1
       /\ (thr[j] = "read" /\ thr'[j] # thr[j] /\ frames'[j] = frames[j])
            => thr'[j] \in {"done", "none"}]_vars

\* C19 witness: stop_record_audio has set the signal and waits in join; the
\* thread appended the chunk it was reading and has ended.
C19_Witness ==
  \E t \in Tasks :
    /\ pc[t] = "join"
    /\ stop_event[job[t]] /\ thr[job[t]] = "done" /\ frames[job[t]] = MaxFrames

\* The outcomes of stop_record_audio in which it wrote, or tried to write,
\* the output file.
WriteOutcomes == {"stopped", "no_valid_file", "save_failed"}

\* C20: when stop_record_audio has written the output file, the background
\* thread is not in a read whose chunk it would append after the write, also
\* when join returned by its timeout.
C20_WriteAfterThreadStopped ==
  ( /\ returned.op = "stop" /\ returned.cat = "audio"
    /\ returned.result \in WriteOutcomes )
    => \A j \in Jobs : thr[j] # "read"

\* The results of stop_video_recording and stop_record_screen that do not
\* come from an except branch.
StoppedResults == {"stopped", "no_valid_file"}

\* C21: the encoder process is first sent terminate; kill is sent only
\* after terminate and only to a process that still runs when the 10 s wait
\* is over; and when the stop call returns without an internal exception the
\* process it signalled has exited.
C21_TerminateThenKill ==
  [][/\ \A j \in Jobs :
          sig'[j] # sig[j] =>
            \/ sig'[j] = <<>>
            \/ sig[j] = <<>> /\ sig'[j] = <<"terminate">>
            \/ /\ sig[j] = <<"terminate">> /\ sig'[j] = <<"terminate", "kill">>
               /\ proc[j] = "running"
     /\ ( /\ returned' # returned /\ returned'.op = "stop"
          /\ returned'.cat \in {"video", "screen"}
          /\ returned'.result \in StoppedResults )
        => /\ \E j \in Jobs : sig'[j] # <<>>
           /\ \A j \in Jobs : sig'[j] # <<>> => proc'[j] = "exited"]_vars

\* C21 witness: stop_video_recording returned "stopped" after the encoder
\* ignored terminate for 10 s and was killed.
C21_Witness ==
  /\ returned.op = "stop" /\ returned.cat = "video" /\ returned.result = "stopped"
  /\ \E j \in Jobs : sig[j] = <<"terminate", "kill">> /\ proc[j] = "exited"

\* C22: a stop call that found an active job and waits for its recorder (in
\* the 5 s join of the audio thread, in the 10 s wait for the encoder)
\* eventually returns, also when the recorder ignores the stop signal.
C22_StopReturns ==
  \A t \in Tasks :
    (op[t] = "stop" /\ pc[t] \in {"join", "wait"}) ~> (pc[t] = "idle")

\* C22 witness: stop_record_audio returned while the thread it signalled is
\* still in its read: the join ended by its timeout.
C22_Witness ==
  /\ returned.op = "stop" /\ returned.cat = "audio" /\ returned.result = "stopped"
  /\ \E j \in Jobs : stop_event[j] /\ thr[j] = "read"

\* The parameters of a start call of category k are not valid.
InvalidStart(k, a) ==
  \/ a.duration # Background /\ a.duration <= 0
  \/ k \in {"video", "screen"} /\ a.fps <= 0
  \/ k = "screen" /\ a.fps > 60
  \/ k = "video" /\ a.system = "darwin" /\ a.fps > 30

\* The invalid-parameter errors of the start calls.
InvalidResults == {"invalid_duration", "invalid_fps"}

\* C23: a start call with a well-formed device id whose duration or fps is
\* not valid, made while the slot of its category is Idle, returns an
\* invalid-parameter error in the step it enters: no capture handle, audio
\* system or stream was opened, no encoder spawned, no thread started, no
\* directory made, and the slot is Idle as before.
C23_InvalidStartRejected ==
  [][\A t \in Tasks, k \in Cats :
       ( /\ pc[t] = "idle" /\ slot[k] = None
         /\ \/ pc'[t] # "idle" /\ op'[t] = "start" /\ cat'[t] = k
            \/ /\ pc'[t] = "idle" /\ returned = NoResult
               /\ returned'.call = t /\ returned'.op = "start" /\ returned'.cat = k
         /\ InvalidStart(k, args'[t]) )
       => /\ pc'[t] = "idle"
          /\ returned'.result \in InvalidResults
          /\ slot' = slot
          /\ proc' = proc /\ handles' = handles
          /\ stream' = stream /\ pa' = pa /\ thr' = thr
          /\ ~args'[t].made_dir]_vars

\* The call named an explicit device that has no channel of the direction
\* tool o needs.
WrongDirection(o, a) ==
  /\ a.device \in {"in", "out"}
  /\ IF o = "start" THEN InputChannels(a.device) = 0 ELSE OutputChannels(a.device) = 0

\* C24: record_audio with an explicit device without input channels and
\* play_audio with an explicit device without output channels return the
\* wrong-direction error; no stream was opened, no thread started, and the
\* audio slot is as it was.
C24_WrongDirectionRejected ==
  [][\A t \in Tasks :
       ( /\ returned' # returned /\ returned'.call = t
         /\ returned'.op \in {"start", "play"} /\ returned'.cat = "audio"
         /\ WrongDirection(returned'.op, args'[t]) )
       => /\ returned'.result =
               (IF returned'.op = "start" THEN "not_input_device" ELSE "not_output_device")
          /\ stream' = stream
          /\ thr' = thr /\ play' = play
          /\ slot' = slot]_vars

\* C24 witness: record_audio was given an output-only device and returned
\* the wrong-direction error with no stream open.
C24_Witness ==
  /\ returned.op = "start" /\ returned.cat = "audio"
  /\ returned.result = "not_input_device"
  /\ args[returned.call].device = "out"
  /\ \A j \in Jobs : stream[j] # "open" /\ thr[j] = "none"
  /\ slot["audio"] = None

\* C25: a fixed-duration record_audio that succeeds has read n chunks with
\* n * 1024 <= r * d < (n + 1) * 1024, all before it closed the stream, and
\* has then written those n chunks in the order it read them; it set no
\* slot and started no thread.
C25_FixedDurationChunks ==
  [][\A t \in Tasks :
       ( /\ returned' # returned /\ returned'.call = t
         /\ returned'.op = "start" /\ returned'.cat = "audio"
         /\ returned'.result = "recorded" )
       => LET a == args'[t]
              reads == SelectSeq(a.log, LAMBDA x : x.e = "read")
              n == Len(reads)
          IN /\ a.duration > 0
             /\ n * Chunk <= a.sample_rate * a.duration
             /\ a.sample_rate * a.duration < (n + 1) * Chunk
             /\ a.log = reads \o << [e |-> "close", chunks |-> <<>>],
                                    [e |-> "write",
                                     chunks |-> [i \in 1..n |-> reads[i].chunks[1]]] >>
             /\ slot' = slot /\ thr' = thr /\ started' = started]_vars

\* C25 witness: record_audio(duration = 2, sample_rate = 11025) returned
\* after 21 reads, the close and the write.
C25_Witness ==
  /\ returned.op = "start" /\ returned.cat = "audio" /\ returned.result = "recorded"
  /\ args[returned.call].sample_rate = 11025
  /\ Len(args[returned.call].log) = 23

\* C30: when start_video_recording returns an error, a file of the caller
\* that was at save_path is still there.
C30_FailedStartKeepsFile ==
  ( /\ returned.op = "start" /\ returned.cat = "video"
    /\ returned.result \notin {"started", "recorded"}
    /\ args[returned.call].save_path \in {"d/rec", "rec"}
    /\ args[returned.call].existed )
    => ~args[returned.call].removed

\* The marker stands at place p of the text with a job id after it.
IdAt(text, marker, p) ==
  /\ p + Len(marker) <= Len(text)
  /\ SubSeq(text, p, p + Len(marker) - 1) = marker
  /\ text[p + Len(marker)] # " "

\* The job id after the marker at place p: the characters up to the next
\* blank or to the end of the text.
IdFrom(text, marker, p) ==
  LET first == p + Len(marker)
      last == CHOOSE e \in first..Len(text) :
                /\ \A i \in first..e : text[i] # " "
                /\ e = Len(text) \/ text[e + 1] = " "
  IN SubSeq(text, first, last)

\* C26: print_file reports success only when the spooler command exited
\* with success and its output holds a job id after the marker, and then
\* job_id is that id; when the command succeeded and no id is found the
\* result is a failure whose error is not the 'Printing failed' of a
\* command that failed.
C26_SuccessNeedsJobId ==
  returned.op = "print_file" =>
    LET a == args[returned.call]
        places == {p \in 1..Len(a.stdout) : IdAt(a.stdout, Marker(a.system), p)}
    IN /\ returned.result = "printed" =>
            /\ a.run = "ok" /\ places # {}
            /\ devices = <<[job_id |->
                  IdFrom(a.stdout, Marker(a.system),
                         CHOOSE p \in places : \A q \in places : p <= q)]>>
       /\ (a.run = "ok" /\ places = {}) =>
            /\ returned.result = "no_job_id"
            /\ devices[1].error # "Printing failed"
       /\ a.run = "nonzero" =>
            /\ returned.result = "printing_failed"
            /\ devices[1].error = "Printing failed"

\* C26 witness: lp wrote its marker twice, the first time without an id;
\* print_file returned the id after the second.
C26_Witness ==
  /\ returned.op = "print_file" /\ returned.result = "printed"
  /\ args[returned.call].stdout = LpMarker \o <<" ">> \o LpMarker \o <<"8">>
  /\ devices = <<[job_id |-> <<"8">>]>>

\* C29: when print_file returns after it has made its temporary file, the
\* file is gone.
C29_TempFileRemoved ==
  returned.op = "print_file" => args[returned.call].temp # "exists"

\* C27: a capture_image that succeeds has opened the capture it keeps with
\* the first backend that gave a frame, read 5 warm-up frames, waited its
\* timer, read the frame it saves, written the image, and released the
\* capture, in this order.
C27_CaptureOrder ==
  (returned.op = "capture_image" /\ returned.result = "captured") =>
    LET a == args[returned.call] IN
    /\ a.tried >= 1 /\ a.passed = 0
    /\ a.steps = <<"open", "warmup", "warmup", "warmup", "warmup", "warmup",
                   "timer", "read", "write", "release">>

\* C27 witness: capture_image succeeded with the third backend after the
\* first two gave no frame.
C27_Witness ==
  /\ returned.op = "capture_image" /\ returned.result = "captured"
  /\ args[returned.call].tried = 3 /\ args[returned.call].passed = 0
  /\ handles = 0

\* C28: list_cameras makes no further probe of an index once a probe of it
\* gave a frame; the list holds at most one descriptor for an index, in
\* increasing order of the indices, with device ids that differ.
C28_FirstBackendWins ==
  /\ \A t \in Tasks : args[t].after = 0
  /\ \A m, n \in DOMAIN cameras :
       m < n => /\ cameras[m].index < cameras[n].index
                /\ cameras[m].device_id # cameras[n].device_id

\* C28 witness: list_cameras returned two cameras, found by different
\* probes.
C28_Witness ==
  /\ returned.op = "list_cameras"
  /\ Len(cameras) = 2
  /\ cameras[1].device_id = CamIdOf(0) /\ cameras[2].device_id = CamIdOf(1)

\* The identifier device_id names one of the displays when monitors are
\* attached: it is displayN with 0 <= N < monitors.
NamesDisplay(device_id, monitors) ==
  \E i \in 0..(monitors - 1) : device_id = DisplayIdOf(i)

\* The results of capture_screenshot and record_screen that follow the
\* selection of a display.
PastSelection ==
  {"captured", "not_created", "permission_denied", "encoder_missing",
   "started", "start_failed", "recorded", "record_failed", "no_output_file"}

\* C31: capture_screenshot and record_screen act only on the display the
\* device_id names, whose index i has 0 <= i < number of monitors; with
\* monitors attached, a device_id that names none of them ends in a
\* device-not-found or an invalid-id error.
C31_DisplayIndexChecked ==
  LET a == args[returned.call] IN
  ( /\ \/ returned.op = "capture_screenshot"
       \/ returned.op = "start" /\ returned.cat = "screen"
    /\ a.monitors > 0 )
  => /\ returned.result \in PastSelection =>
          /\ 0 <= a.display /\ a.display < a.monitors
          /\ a.device_id = DisplayIdOf(a.display)
     /\ ~NamesDisplay(a.device_id, a.monitors) =>
          returned.result \in {"display_not_found", "invalid_device_id"}

\* C32: every result of capture_image, start_video_recording and
\* stop_video_recording has a status that is 'success' or 'error', and a
\* result with status 'error' has an error message.
C32_CameraResultShape ==
  ( \/ returned.op = "capture_image"
    \/ returned.op \in {"start", "stop"} /\ returned.cat = "video" )
  => LET d == CameraAnswer(returned.op, returned.result) IN
     /\ d.status \in {"success", "error"}
     /\ d.status = "error" => d.error

\* The command has the option x with the value y.
HasOption(command, x, y) ==
  \E n \in 1..(Len(command) - 1) : command[n] = x /\ command[n + 1] = y

\* C33: the command print_file runs carries the number of copies, a
\* two-sided option exactly when double_sided is true, and a grayscale
\* option exactly when color is false, on every platform.
C33_CommandCarriesOptions ==
  (returned.op = "print_file" /\ args[returned.call].command # <<>>) =>
    LET a == args[returned.call] IN
    /\ HasOption(a.command, "-n", ToString(a.copies))
    /\ a.double_sided <=> HasOption(a.command, "-o", "sides=two-sided-long-edge")
    /\ ~a.color <=> HasOption(a.command, "-o", "ColorModel=Gray")

====
